---- MODULE Spec2Model ----
(***************************************************************************)
(* A model of the cognitive agency of kern/cognitive_agency.c:             *)
(* the Atomspace, atoms and their links, agents and their message queues,  *)
(* the rule engine, and agency shutdown.                                   *)
(*                                                                         *)
(* The collections of the code are intrusive Mach queues: a queue head and *)
(* an element's queue_chain_t are both a (next, prev) pair of pointers,    *)
(* and every element type keeps its chain as its first member.  The model  *)
(* keeps that pointer graph as it is (variable lk), because an atom has    *)
(* ONE chain that the code enters into several queues, and a link has ONE  *)
(* chain entered into two.  simple_lock is a spin lock that is not         *)
(* reentrant: a thread that takes a lock it holds spins forever.           *)
(*                                                                         *)
(* Truth values are C floats in [0,1]; the model keeps them in thousandths *)
(* (One = 1.0f), products rounded down.  kalloc is taken to succeed.       *)
(***************************************************************************)
EXTENDS Integers, Sequences, FiniteSets, TLC

VARIABLES
    lk,             \* the pointer graph: node -> [next, prev]
    atom,           \* struct cognitive_atom, by address
    space,          \* struct cognitive_atomspace (the shared one)
    agent,          \* struct cognitive_agent, by address
    rule,           \* struct cognitive_rule, by address
    msg,            \* struct cognitive_message, by address
    alink,          \* struct cognitive_atom_link, by address
    agency,         \* global_cognitive_agency
    lock,           \* every simple lock: 0 when free, else the holding thread
    th,             \* each thread's position in the call it runs, and its locals
    next_atom_id,   \* static unsigned int next_atom_id
    next_agent_id,  \* static unsigned int next_agent_id
    gh,             \* history kept for the properties only
    plan,           \* struct cognitive_plan, by address
    action,         \* struct cognitive_action, by address
    lttng           \* the statics of kern/lttng.c

vars == <<lk, atom, space, agent, rule, msg, alink, agency, lock, th,
          next_atom_id, next_agent_id, gh, plan, action, lttng>>

(***************************************************************************)
(* Bounds of the model.                                                    *)
(***************************************************************************)
\* capacity given to the Atomspace (space->max_atoms)
MaxAtoms == 3
\* agents that can be created
MaxAgents == 2
\* rules that can be created
MaxRules == 1
\* message envelopes that can be allocated
MaxMsgs == 2
\* link structures that can be allocated
MaxLinks == 2
\* cap on an atom's observation count (truth.count)
MaxObs == 2
\* cap on an atom's ref_count
MaxRefs == 3
\* cap on the number of add_belief calls per agent, and likewise of
\* add_goal and of learn calls
MaxBeliefs == 2
\* plans that can be allocated
MaxPlans == 2
\* cap on an agent's actions_executed and reasoning_cycles
MaxActs == 3
\* MACH_TRACE_BUF_SIZE (8192 in include/mach/lttng.h), scaled down: the slots
\* of the trace ring buffer
MACH_TRACE_BUF_SIZE == 4
\* cap on the events that pass the quick check of mach_trace_event
MaxEvents == 5

(***************************************************************************)
(* Program constants.                                                      *)
(***************************************************************************)
\* 1.0f, in thousandths
One == 1000
\* the default strength and confidence 0.5f
Half == 500
\* the float that is no number: a value apart from every number, for which
\* every ordered comparison of C is false
NaN == 0 - One * One
\* x < y and x >= y on floats
FLess(x, y) == x # NaN /\ y # NaN /\ x < y
FGeq(x, y) == x # NaN /\ y # NaN /\ x >= y

Threads == {1, 2}
NoThread == 0

\* one slot more than the capacity, so that an allocation beyond it would show
AtomIds == 1 .. (MaxAtoms + 1)
AgentIds == 1 .. MaxAgents
RuleIds == 1 .. MaxRules
MsgIds == 1 .. MaxMsgs
LinkIds == 1 .. MaxLinks
PlanIds == 1 .. MaxPlans
\* two actions for each element a walk of the beliefs can meet, in every plan
ActionIds == 1 .. (2 * (MaxAtoms + 1) * MaxPlans)

AtomTypes == {"CONCEPT", "PREDICATE", "LINK", "VALUE", "GOAL", "BELIEF",
              "ACTION", "SCHEMA"}
AgentStates == {"IDLE", "REASONING", "ACTING", "LEARNING", "COMMUNICATING",
                "BLOCKED"}

(***************************************************************************)
(* Addresses.  A node is anything that holds a (next, prev) pair: a queue  *)
(* head or the chain at the start of an element.                           *)
(***************************************************************************)
NULL == <<"null", 0>>
AtomN(i) == <<"atom", i>>
AgentN(i) == <<"agent", i>>
RuleN(i) == <<"rule", i>>
MsgN(i) == <<"msg", i>>
LinkN(i) == <<"link", i>>
PlanN(i) == <<"plan", i>>
ActionN(i) == <<"action", i>>
\* &space->atoms
AtomsHead == <<"space.atoms", 0>>
\* &space->atoms of a second Atomspace, made by cognitive_atomspace_create
OtherHead == <<"space.atoms", 1>>
\* &global_cognitive_agency.agents and .rules
AgentsHead == <<"agency.agents", 0>>
RulesHead == <<"agency.rules", 0>>
\* the queue heads inside an agent
GoalsHead(i) == <<"agent.goals", i>>
BeliefsHead(i) == <<"agent.beliefs", i>>
KnowledgeHead(i) == <<"agent.knowledge", i>>
MessageHead(i) == <<"agent.message_queue", i>>
PlansHead(i) == <<"agent.plans", i>>
\* the queue head inside a plan
ActionsHead(i) == <<"plan.actions", i>>
\* the queue heads inside an atom
OutHead(i) == <<"atom.outgoing_links", i>>
InHead(i) == <<"atom.incoming_links", i>>

AtomNodes == {AtomN(i) : i \in AtomIds}
Heads ==
    {AtomsHead, OtherHead, AgentsHead, RulesHead}
    \cup {GoalsHead(i) : i \in AgentIds} \cup {BeliefsHead(i) : i \in AgentIds}
    \cup {KnowledgeHead(i) : i \in AgentIds} \cup {MessageHead(i) : i \in AgentIds}
    \cup {OutHead(i) : i \in AtomIds} \cup {InHead(i) : i \in AtomIds}
    \cup {PlansHead(i) : i \in AgentIds} \cup {ActionsHead(i) : i \in PlanIds}
Nodes ==
    Heads \cup AtomNodes \cup {AgentN(i) : i \in AgentIds}
    \cup {RuleN(i) : i \in RuleIds} \cup {MsgN(i) : i \in MsgIds}
    \cup {LinkN(i) : i \in LinkIds} \cup {NULL}
    \cup {PlanN(i) : i \in PlanIds} \cup {ActionN(i) : i \in ActionIds}

IsAtom(n) == n[1] = "atom"
Idx(n) == n[2]

\* locks
SpaceLock == <<"space.lock", 0>>
\* the lock of the second Atomspace
OtherLock == <<"space.lock", 1>>
AgencyLock == <<"agency.lock", 0>>
\* mach_trace_buf_impl.lock
TraceLock == <<"trace.lock", 0>>
AgentLock(i) == <<"agent.lock", i>>
AtomLock(i) == <<"atom.lock", i>>
Locks ==
    {SpaceLock, OtherLock, AgencyLock, TraceLock} \cup {AgentLock(i) : i \in AgentIds}
    \cup {AtomLock(i) : i \in AtomIds}

(***************************************************************************)
(* kern/queue.h, on the pointer graph L.                                   *)
(***************************************************************************)
\* queue_init(q)
queue_init(L, q) == [L EXCEPT ![q] = [next |-> q, prev |-> q]]

\* queue_empty(q): queue_end(q, queue_first(q))
queue_empty(L, q) == L[q].next = q

\* queue_enter(head, elt, type, field): insert elt at the tail of head
queue_enter(L, head, elt) ==
    LET prev == L[head].prev
        L1 == IF head = prev
              THEN [L EXCEPT ![head].next = elt]
              ELSE [L EXCEPT ![prev].next = elt]
        L2 == [L1 EXCEPT ![elt].prev = prev]
        L3 == [L2 EXCEPT ![elt].next = head]
    IN  [L3 EXCEPT ![head].prev = elt]

\* queue_remove(head, elt, type, field): unlink elt through its own chain
queue_remove(L, head, elt) ==
    LET next == L[elt].next
        prev == L[elt].prev
        L1 == IF head = next
              THEN [L EXCEPT ![head].prev = prev]
              ELSE [L EXCEPT ![next].prev = prev]
    IN  IF head = prev
        THEN [L1 EXCEPT ![head].next = next]
        ELSE [L1 EXCEPT ![prev].next = next]

\* queue_remove_first(head, entry, type, field): the graph after it
queue_remove_first(L, head) ==
    LET entry == L[head].next
        next == L[entry].next
        L1 == IF head = next
              THEN [L EXCEPT ![head].prev = head]
              ELSE [L EXCEPT ![next].prev = head]
    IN  [L1 EXCEPT ![head].next = next]

\* queue_iterate(head, elt, type, field) with a body that changes no pointer:
\* the elements visited, in order; it ends only when the walk comes back to
\* head, so a walk that meets a node twice never ends.
RECURSIVE Walk(_, _, _, _)
Walk(L, head, cur, seen) ==
    IF cur = head THEN [ends |-> TRUE, elts |-> seen]
    ELSE IF cur = NULL \/ \E i \in 1 .. Len(seen) : seen[i] = cur
         THEN [ends |-> FALSE, elts |-> seen]
         ELSE Walk(L, head, L[cur].next, Append(seen, cur))

queue_iterate(L, head) == Walk(L, head, L[head].next, <<>>)

(***************************************************************************)
(* kern/lock.h: simple locks.                                              *)
(***************************************************************************)
\* simple_lock(l) returns only once l is free; a holder that asks again waits
\* for itself
simple_lock_free(l) == lock[l] = NoThread

\* the thread waits for a lock it holds itself
SelfDeadlock(t, l) == lock[l] = t

(***************************************************************************)
(* Threads.                                                                *)
(***************************************************************************)
IdleThread ==
    [pc |-> "idle", op |-> "none", a |-> NULL, b |-> NULL, s |-> 0, c |-> 0,
     ty |-> "CONCEPT", nm |-> "", cur |-> NULL, rcur |-> NULL, nxt |-> NULL,
     k |-> 0, ret |-> "none", out |-> NULL, n |-> 0, res |-> <<>>]

\* the call returns: the thread is idle again and keeps what the call returned
Return(t, code, outp, cnt) ==
    [th[t] EXCEPT !.pc = "idle", !.ret = code, !.out = outp, !.n = cnt]

\* kern/lttng.c after mach_trace_init: the buffer is zeroed (memset), tracing
\* is off and the statistics are zero; counter is the static of
\* mach_trace_timestamp
NoEvent == [timestamp |-> 0, event_id |-> 0]
mach_trace_init ==
    [mach_trace_buf_impl |->
         [events |-> [p \in 0 .. MACH_TRACE_BUF_SIZE - 1 |-> NoEvent],
          write_pos |-> 0, read_pos |-> 0, enabled |-> FALSE,
          dropped_events |-> 0],
     mach_tracing_enabled |-> FALSE,
     total_events_generated |-> 0, total_events_dropped |-> 0, counter |-> 0]

\* no second Atomspace has been created
NoSpace == [exists |-> FALSE, atom_count |-> 0, max_atoms |-> MaxAtoms]
InitAtom ==
    [st |-> "none", type |-> "CONCEPT", id |-> 0, name |-> "",
     strength |-> 0, confidence |-> 0, count |-> 0, ref_count |-> 0]
InitAgent ==
    [st |-> "none", id |-> 0, state |-> "IDLE", message_count |-> 0,
     reasoning_cycles |-> 0, actions_executed |-> 0,
     messages_processed |-> 0, messages_sent |-> 0, current_plan |-> NULL]
InitRule ==
    [st |-> "none", condition_type |-> "CONCEPT", conclusion_type |-> "CONCEPT",
     confidence_threshold |-> 0, times_applied |-> 0, added |-> FALSE]
InitMsg == [st |-> "none", sender |-> NULL, content |-> NULL]
InitPlan ==
    [st |-> "none", goal |-> NULL, action_count |-> 0, total_cost |-> 0,
     valid |-> FALSE]
InitAction ==
    [st |-> "none", name |-> "", precondition |-> NULL, effect |-> NULL,
     cost |-> 0, completed |-> FALSE]
\* src is not a field of the code: it records the source atom for the properties
InitLink ==
    [st |-> "none", target |-> NULL, link_type |-> 0, strength |-> 0, src |-> NULL]

\* what the properties remember of the past; the code has none of it
NoPair == [stage |-> 0, t |-> 0, x |-> 0, y |-> 0, m |-> NULL, sent0 |-> 0, proc0 |-> 0]
InitGhost ==
    [snap |-> InitAtom,
     sent |-> [i \in AgentIds |-> <<>>],
     rcvd |-> [i \in AgentIds |-> <<>>],
     pair |-> NoPair,
     beliefs |-> [i \in AgentIds |-> <<>>],
     goals |-> [i \in AgentIds |-> <<>>],
     knowledge |-> [i \in AgentIds |-> <<>>],
     expected |-> <<>>, derived |-> <<>>, count0 |-> 0,
     applied0 |-> [i \in RuleIds |-> 0],
     made |-> NULL, cur0 |-> NULL, exec0 |-> 0, todo |-> 0,
     refs0 |-> [i \in AtomIds |-> 0], members |-> <<>>, allocated |-> <<>>]

\* the number of entries of the sequence q that are the node n
RECURSIVE Occurrences(_, _)
Occurrences(q, n) ==
    IF q = <<>> THEN 0
    ELSE (IF Head(q) = n THEN 1 ELSE 0) + Occurrences(Tail(q), n)

\* kalloc: the lowest address of the pool not handed out yet
FreeIds(pool, tab) == {i \in pool : tab[i].st = "none"}
Lowest(S) == CHOOSE i \in S : \A j \in S : i <= j

\* cognitive_agency_init on a fresh system, with the capacity of the Atomspace
\* set to MaxAtoms
AgencyInit ==
    /\ lk = [n \in Nodes |->
               IF n \in {AtomsHead, AgentsHead, RulesHead}
               THEN [next |-> n, prev |-> n]
               ELSE [next |-> NULL, prev |-> NULL]]
    /\ atom = [i \in AtomIds |-> InitAtom]
    /\ space = [exists |-> TRUE, atom_count |-> 0, max_atoms |-> MaxAtoms,
                other |-> NoSpace]
    /\ agent = [i \in AgentIds |-> InitAgent]
    /\ rule = [i \in RuleIds |-> InitRule]
    /\ msg = [i \in MsgIds |-> InitMsg]
    /\ alink = [i \in LinkIds |-> InitLink]
    /\ agency = [agent_count |-> 0, rule_count |-> 0, initialized |-> TRUE,
                 atomspace |-> TRUE]
    /\ lock = [l \in Locks |-> NoThread]
    /\ th = [t \in Threads |-> IdleThread]
    /\ next_atom_id = 1
    /\ next_agent_id = 1
    /\ gh = InitGhost
    /\ plan = [i \in PlanIds |-> InitPlan]
    /\ action = [i \in ActionIds |-> InitAction]
    /\ lttng = mach_trace_init

Names == {"cpu_load", "mem_pressure"}

(***************************************************************************)
(* cognitive_atom_create(space, type, name)                                *)
(***************************************************************************)
\* the null pointer passed as a name
NullName == "(null)"

\* a check of the name that refuses the empty string too
name_missing_or_empty(name) == name = NullName \/ name = ""

\* the check of the name argument: name == NULL
name_missing(name) == name = NullName

\* the call: without a name return the null atom, else go on up to
\* simple_lock(&space->lock)
atom_create_call(t, type, name) ==
    /\ th[t].pc = "idle"
    /\ space.exists
    /\ th' = [th EXCEPT ![t] =
                IF name_missing(name)
                THEN [IdleThread EXCEPT !.op = "atom_create", !.ty = type,
                         !.nm = name]
                ELSE [IdleThread EXCEPT !.pc = "ac_lock",
                         !.op = "atom_create", !.ty = type, !.nm = name]]
    /\ UNCHANGED <<plan, action, lk, atom, space, agent, rule, msg, alink, agency, lock,
                   next_atom_id, next_agent_id, gh, lttng>>

\* simple_lock(&space->lock)
atom_create_lock(t) ==
    /\ th[t].pc = "ac_lock"
    /\ simple_lock_free(SpaceLock)
    /\ lock' = [lock EXCEPT ![SpaceLock] = t]
    /\ th' = [th EXCEPT ![t].pc = "ac_check"]
    /\ UNCHANGED <<plan, action, lk, atom, space, agent, rule, msg, alink, agency,
                   next_atom_id, next_agent_id, gh, lttng>>

\* a capacity check that lets one atom too many in
atom_create_check_offbyone(t) ==
    /\ th[t].pc = "ac_check"
    /\ IF space.atom_count > space.max_atoms
       THEN /\ lock' = [lock EXCEPT ![SpaceLock] = NoThread]
            /\ th' = [th EXCEPT ![t] = Return(t, "none", NULL, 0)]
       ELSE /\ th' = [th EXCEPT ![t].pc = "ac_enter"]
            /\ UNCHANGED lock
    /\ UNCHANGED <<plan, action, lk, atom, space, agent, rule, msg, alink, agency,
                   next_atom_id, next_agent_id, gh, lttng>>

\* the capacity check: at capacity the call unlocks and returns the null atom
atom_create_check(t) ==
    /\ th[t].pc = "ac_check"
    /\ IF space.atom_count >= space.max_atoms
       THEN /\ lock' = [lock EXCEPT ![SpaceLock] = NoThread]
            /\ th' = [th EXCEPT ![t] = Return(t, "none", NULL, 0)]
       ELSE /\ th' = [th EXCEPT ![t].pc = "ac_enter"]
            /\ UNCHANGED lock
    /\ UNCHANGED <<plan, action, lk, atom, space, agent, rule, msg, alink, agency,
                   next_atom_id, next_agent_id, gh, lttng>>

\* the atom as cognitive_atom_create initialises it
NewAtom(type, name, id) ==
    [st |-> "live", type |-> type, id |-> id, name |-> name,
     strength |-> Half, confidence |-> Half, count |-> 0, ref_count |-> 1]

\* the graph after the atom's own queue heads are initialised and the atom is
\* entered into space->atoms
EnterNewAtom(L, i) ==
    queue_enter(queue_init(queue_init(L, OutHead(i)), InHead(i)),
                AtomsHead, AtomN(i))

\* kalloc, the initialisation, queue_enter into space->atoms, atom_count++, unlock
atom_create_enter(t) ==
    /\ th[t].pc = "ac_enter"
    /\ FreeIds(AtomIds, atom) # {}
    /\ LET i == Lowest(FreeIds(AtomIds, atom))
       IN  /\ atom' = [atom EXCEPT ![i] = NewAtom(th[t].ty, th[t].nm, next_atom_id)]
           /\ next_atom_id' = next_atom_id + 1
           /\ lk' = EnterNewAtom(lk, i)
           /\ space' = [space EXCEPT !.atom_count = @ + 1]
           /\ lock' = [lock EXCEPT ![SpaceLock] = NoThread]
           /\ th' = [th EXCEPT ![t] = Return(t, "none", AtomN(i), 0)]
    /\ UNCHANGED <<plan, action, agent, rule, msg, alink, agency, next_agent_id, gh, lttng>>

(***************************************************************************)
(* cognitive_atomspace_create and cognitive_atom_create(space, type, name) *)
(* on either Atomspace, with atom->id = next_atom_id++ as the load and the *)
(* store it compiles to: next_atom_id is one counter for all Atomspaces,   *)
(* read and written under the lock of the Atomspace at hand.               *)
(***************************************************************************)
\* &space->lock and the space itself, for the space whose atoms are at head
LockOf(head) == IF head = AtomsHead THEN SpaceLock ELSE OtherLock
SpaceOf(head) == IF head = AtomsHead THEN space ELSE space.other

\* cognitive_atomspace_create: kalloc, queue_init, atom_count = 0, max_atoms
atomspace_create(t) ==
    /\ th[t].pc = "idle"
    /\ ~space.other.exists
    /\ space' = [space EXCEPT !.other = [NoSpace EXCEPT !.exists = TRUE]]
    /\ lk' = queue_init(lk, OtherHead)
    /\ th' = [th EXCEPT ![t] = [IdleThread EXCEPT !.op = "atomspace_create",
                                   !.out = OtherHead]]
    /\ UNCHANGED <<plan, action, atom, agent, rule, msg, alink, agency, lock,
                   next_atom_id, next_agent_id, gh, lttng>>

\* the call, up to simple_lock(&space->lock)
atom_create_in_call(t, head, type, name) ==
    /\ th[t].pc = "idle"
    /\ SpaceOf(head).exists
    /\ th' = [th EXCEPT ![t] =
                IF name_missing(name)
                THEN [IdleThread EXCEPT !.op = "atom_create", !.ty = type,
                         !.nm = name]
                ELSE [IdleThread EXCEPT !.pc = "si_lock", !.op = "atom_create",
                         !.ty = type, !.nm = name, !.cur = head]]
    /\ UNCHANGED <<plan, action, lk, atom, space, agent, rule, msg, alink, agency, lock,
                   next_atom_id, next_agent_id, gh, lttng>>

\* simple_lock(&space->lock) and the capacity check
atom_create_in_check(t) ==
    /\ th[t].pc = "si_lock"
    /\ simple_lock_free(LockOf(th[t].cur))
    /\ IF SpaceOf(th[t].cur).atom_count >= SpaceOf(th[t].cur).max_atoms
       THEN /\ th' = [th EXCEPT ![t] = Return(t, "none", NULL, 0)]
            /\ UNCHANGED lock
       ELSE /\ th' = [th EXCEPT ![t].pc = "si_load"]
            /\ lock' = [lock EXCEPT ![LockOf(th[t].cur)] = t]
    /\ UNCHANGED <<plan, action, lk, atom, space, agent, rule, msg, alink, agency,
                   next_atom_id, next_agent_id, gh, lttng>>

\* kalloc and the load of next_atom_id
atom_create_in_load(t) ==
    /\ th[t].pc = "si_load"
    /\ FreeIds(AtomIds, atom) # {}
    /\ th' = [th EXCEPT ![t].pc = "si_store", ![t].k = next_atom_id]
    /\ UNCHANGED <<plan, action, lk, atom, space, agent, rule, msg, alink, agency, lock,
                   next_atom_id, next_agent_id, gh, lttng>>

\* atom->id = the value loaded, the store of it plus one to next_atom_id, the
\* rest of the initialisation, queue_enter, atom_count++, unlock
atom_create_in_store(t) ==
    /\ th[t].pc = "si_store"
    /\ FreeIds(AtomIds, atom) # {}
    /\ LET i == Lowest(FreeIds(AtomIds, atom))
           head == th[t].cur
       IN  /\ atom' = [atom EXCEPT ![i] = NewAtom(th[t].ty, th[t].nm, th[t].k)]
           /\ next_atom_id' = th[t].k + 1
           /\ lk' = queue_enter(queue_init(queue_init(lk, OutHead(i)), InHead(i)),
                                head, AtomN(i))
           /\ space' = IF head = AtomsHead
                       THEN [space EXCEPT !.atom_count = @ + 1]
                       ELSE [space EXCEPT !.other.atom_count = @ + 1]
           /\ lock' = [lock EXCEPT ![LockOf(head)] = NoThread]
           /\ gh' = [gh EXCEPT !.allocated = Append(@, AtomN(i))]
           /\ th' = [th EXCEPT ![t] = Return(t, "none", AtomN(i), 0)]
    /\ UNCHANGED <<plan, action, agent, rule, msg, alink, agency, next_agent_id, lttng>>

(***************************************************************************)
(* Concurrent allocation: two threads call cognitive_atom_create.          *)
(***************************************************************************)
NextAlloc ==
    \E t \in Threads :
        \/ \E type \in {"CONCEPT", "ACTION"}, name \in Names :
               atom_create_call(t, type, name)
        \/ atom_create_lock(t)
        \/ atom_create_check(t)
        \/ atom_create_enter(t)

SpecAlloc == AgencyInit /\ [][NextAlloc]_vars

(***************************************************************************)
(* cognitive_atom_set_truth(atom, strength, confidence)                    *)
(***************************************************************************)
\* a range test that forgets the upper ends
TruthInRange_noupper(s, c) == ~(FLess(s, 0) \/ FLess(c, 0))

\* the range test of set_truth: both values in [0.0f, 1.0f]
TruthInRange(s, c) ==
    ~(FLess(s, 0) \/ FLess(One, s) \/ FLess(c, 0) \/ FLess(One, c))

\* the call: the argument checks, up to simple_lock(&atom->lock)
set_truth_call(t, a, s, c) ==
    /\ th[t].pc = "idle"
    /\ IsAtom(a) /\ atom[Idx(a)].st = "live"
    /\ atom[Idx(a)].count < MaxObs
    /\ LET call == [IdleThread EXCEPT !.op = "set_truth", !.a = a, !.s = s, !.c = c]
       IN  IF TruthInRange(s, c)
           THEN th' = [th EXCEPT ![t] = [call EXCEPT !.pc = "st_lock"]]
           ELSE th' = [th EXCEPT ![t] = [call EXCEPT !.ret = "KERN_INVALID_ARGUMENT"]]
    /\ gh' = [gh EXCEPT !.snap = atom[Idx(a)]]
    /\ UNCHANGED <<plan, action, lk, atom, space, agent, rule, msg, alink, agency, lock,
                   next_atom_id, next_agent_id, lttng>>

\* a store that puts the strength into both fields
set_truth_store_mixed(t) ==
    /\ th[t].pc = "st_lock"
    /\ simple_lock_free(AtomLock(Idx(th[t].a)))
    /\ atom' = [atom EXCEPT ![Idx(th[t].a)].strength = th[t].s,
                            ![Idx(th[t].a)].confidence = th[t].s,
                            ![Idx(th[t].a)].count = @ + 1]
    /\ th' = [th EXCEPT ![t] = [th[t] EXCEPT !.pc = "idle", !.ret = "KERN_SUCCESS"]]
    /\ UNCHANGED <<plan, action, lk, space, agent, rule, msg, alink, agency, lock,
                   next_atom_id, next_agent_id, gh, lttng>>

\* under atom->lock: store strength and confidence, count++
set_truth_store(t) ==
    /\ th[t].pc = "st_lock"
    /\ simple_lock_free(AtomLock(Idx(th[t].a)))
    /\ atom' = [atom EXCEPT ![Idx(th[t].a)].strength = th[t].s,
                            ![Idx(th[t].a)].confidence = th[t].c,
                            ![Idx(th[t].a)].count = @ + 1]
    /\ th' = [th EXCEPT ![t] = [th[t] EXCEPT !.pc = "idle", !.ret = "KERN_SUCCESS"]]
    /\ UNCHANGED <<plan, action, lk, space, agent, rule, msg, alink, agency, lock,
                   next_atom_id, next_agent_id, gh, lttng>>

(***************************************************************************)
(* Links: cognitive_atom_create_link, _remove_link, _count_links.          *)
(* A walk of a link queue meets whatever the next pointers lead to.  A     *)
(* node that is no live link (a queue head taken for a link, a link that   *)
(* was freed) makes the walk "dirty" when the loop body or the step to the *)
(* next element reads it as a link: what is read there is undefined.       *)
(***************************************************************************)
IsLink(n) == n[1] = "link"
LiveLink(n) == IsLink(n) /\ alink[Idx(n)].st = "live"
FreedLink(n) == IsLink(n) /\ alink[Idx(n)].st = "freed"

\* thread t is in an infinite loop, or past undefined behaviour
Stuck(t) == th[t].pc \in {"hung", "undefined"}

\* the call: the argument checks, kalloc and the initialisation of the link
create_link_call(t, from, to, link_type, strength) ==
    /\ th[t].pc = "idle"
    /\ IsAtom(from) /\ atom[Idx(from)].st = "live"
    /\ IsAtom(to) /\ atom[Idx(to)].st = "live"
    /\ FreeIds(LinkIds, alink) # {}
    /\ LET call == [IdleThread EXCEPT !.op = "create_link", !.a = from, !.b = to,
                                      !.s = strength]
           l == Lowest(FreeIds(LinkIds, alink))
       IN  IF strength < 0 \/ strength > One
           THEN /\ th' = [th EXCEPT ![t] = [call EXCEPT !.ret = "KERN_INVALID_ARGUMENT"]]
                /\ UNCHANGED alink
           ELSE /\ th' = [th EXCEPT ![t] = [call EXCEPT !.pc = "cl_from", !.cur = LinkN(l)]]
                /\ alink' = [alink EXCEPT ![l] =
                               [st |-> "live", target |-> to, link_type |-> link_type,
                                strength |-> strength, src |-> from]]
    /\ UNCHANGED <<plan, action, lk, atom, space, agent, rule, msg, agency, lock,
                   next_atom_id, next_agent_id, gh, lttng>>

\* under from->lock: queue_enter(&from->outgoing_links, link)
create_link_out(t) ==
    /\ th[t].pc = "cl_from"
    /\ simple_lock_free(AtomLock(Idx(th[t].a)))
    /\ lk' = queue_enter(lk, OutHead(Idx(th[t].a)), th[t].cur)
    /\ th' = [th EXCEPT ![t].pc = "cl_to"]
    /\ UNCHANGED <<plan, action, atom, space, agent, rule, msg, alink, agency, lock,
                   next_atom_id, next_agent_id, gh, lttng>>

\* create_link_in without to->ref_count++
create_link_in_noref(t) ==
    /\ th[t].pc = "cl_to"
    /\ simple_lock_free(AtomLock(Idx(th[t].b)))
    /\ lk' = queue_enter(lk, InHead(Idx(th[t].b)), th[t].cur)
    /\ th' = [th EXCEPT ![t] = [th[t] EXCEPT !.pc = "idle", !.ret = "KERN_SUCCESS"]]
    /\ UNCHANGED <<plan, action, atom, space, agent, rule, msg, alink, agency, lock,
                   next_atom_id, next_agent_id, gh, lttng>>

\* under to->lock: to->ref_count++, queue_enter(&to->incoming_links, link)
create_link_in(t) ==
    /\ th[t].pc = "cl_to"
    /\ simple_lock_free(AtomLock(Idx(th[t].b)))
    /\ atom' = [atom EXCEPT ![Idx(th[t].b)].ref_count = @ + 1]
    /\ lk' = queue_enter(lk, InHead(Idx(th[t].b)), th[t].cur)
    /\ th' = [th EXCEPT ![t] = [th[t] EXCEPT !.pc = "idle", !.ret = "KERN_SUCCESS"]]
    /\ UNCHANGED <<plan, action, space, agent, rule, msg, alink, agency, lock,
                   next_atom_id, next_agent_id, gh, lttng>>

\* the search loop of remove_link over from->outgoing_links: the first live
\* link whose target is `to`.  Nodes that are no live link are passed as not
\* matching and make the search dirty.
RECURSIVE SearchLink(_, _, _, _, _)
SearchLink(head, to, cur, seen, dirty) ==
    IF cur = head THEN [kind |-> "end", node |-> NULL, dirty |-> dirty]
    ELSE IF cur = NULL \/ cur \in seen
         THEN [kind |-> "hang", node |-> NULL, dirty |-> dirty]
         ELSE IF LiveLink(cur) /\ alink[Idx(cur)].target = to
              THEN [kind |-> "found", node |-> cur, dirty |-> dirty]
              ELSE SearchLink(head, to, lk[cur].next, seen \cup {cur},
                              dirty \/ ~LiveLink(cur))

\* the call, up to simple_lock(&from->lock)
remove_link_call(t, from, to) ==
    /\ th[t].pc = "idle"
    /\ IsAtom(from) /\ atom[Idx(from)].st = "live"
    /\ IsAtom(to) /\ atom[Idx(to)].st = "live"
    /\ th' = [th EXCEPT ![t] = [IdleThread EXCEPT !.pc = "rl_from", !.op = "remove_link",
                                   !.a = from, !.b = to,
                                   !.k = Cardinality({l \in LinkIds :
                                            /\ alink[l].st = "live"
                                            /\ alink[l].src = from
                                            /\ alink[l].target = to})]]
    /\ gh' = [gh EXCEPT !.snap = atom[Idx(to)]]
    /\ UNCHANGED <<plan, action, lk, atom, space, agent, rule, msg, alink, agency, lock,
                   next_atom_id, next_agent_id, lttng>>

\* under from->lock: find the link and queue_remove it from from->outgoing_links
remove_link_out(t) ==
    /\ th[t].pc = "rl_from"
    /\ simple_lock_free(AtomLock(Idx(th[t].a)))
    /\ LET head == OutHead(Idx(th[t].a))
           r == SearchLink(head, th[t].b, lk[head].next, {}, FALSE)
       IN  \/ /\ r.dirty
              /\ th' = [th EXCEPT ![t].pc = "undefined"]
              /\ UNCHANGED <<lk, lock>>
           \/ /\ r.kind = "hang"
              /\ th' = [th EXCEPT ![t].pc = "hung"]
              /\ lock' = [lock EXCEPT ![AtomLock(Idx(th[t].a))] = t]
              /\ UNCHANGED lk
           \/ /\ r.kind = "found"
              /\ lk' = queue_remove(lk, head, r.node)
              /\ th' = [th EXCEPT ![t].pc = "rl_to", ![t].cur = r.node]
              /\ UNCHANGED lock
           \/ /\ r.kind = "end"
              /\ th' = [th EXCEPT ![t] = [th[t] EXCEPT !.pc = "idle",
                                                      !.ret = "KERN_INVALID_ARGUMENT"]]
              /\ UNCHANGED <<lk, lock>>
    /\ UNCHANGED <<plan, action, atom, space, agent, rule, msg, alink, agency,
                   next_atom_id, next_agent_id, gh, lttng>>

\* under to->lock: queue_remove from to->incoming_links, to->ref_count--;
\* then kfree(found_link)
remove_link_in(t) ==
    /\ th[t].pc = "rl_to"
    /\ simple_lock_free(AtomLock(Idx(th[t].b)))
    /\ lk' = queue_remove(lk, InHead(Idx(th[t].b)), th[t].cur)
    /\ atom' = [atom EXCEPT ![Idx(th[t].b)].ref_count = @ - 1]
    /\ alink' = [alink EXCEPT ![Idx(th[t].cur)].st = "freed"]
    /\ th' = [th EXCEPT ![t] = [th[t] EXCEPT !.pc = "idle", !.ret = "KERN_SUCCESS"]]
    /\ UNCHANGED <<plan, action, space, agent, rule, msg, agency, lock,
                   next_atom_id, next_agent_id, gh, lttng>>

\* a counting loop of count_links: count++ for every element until the walk
\* is back at head; stepping on from a freed link reads freed memory
CountLoop(head) ==
    LET w == queue_iterate(lk, head)
    IN  [ends |-> w.ends, n |-> Len(w.elts),
         dirty |-> \E i \in 1 .. Len(w.elts) : FreedLink(w.elts[i])]

\* the call, up to simple_lock(&atom->lock)
count_links_call(t, a) ==
    /\ th[t].pc = "idle"
    /\ IsAtom(a) /\ atom[Idx(a)].st = "live"
    /\ th' = [th EXCEPT ![t] = [IdleThread EXCEPT !.pc = "cn_lock", !.op = "count_links",
                                   !.a = a]]
    /\ UNCHANGED <<plan, action, lk, atom, space, agent, rule, msg, alink, agency, lock,
                   next_atom_id, next_agent_id, gh, lttng>>

\* under atom->lock: the two counting loops, outgoing then incoming
count_links_count(t) ==
    /\ th[t].pc = "cn_lock"
    /\ simple_lock_free(AtomLock(Idx(th[t].a)))
    /\ LET o == CountLoop(OutHead(Idx(th[t].a)))
           i == CountLoop(InHead(Idx(th[t].a)))
       IN  \/ /\ o.dirty \/ (o.ends /\ i.dirty)
              /\ th' = [th EXCEPT ![t].pc = "undefined"]
              /\ UNCHANGED lock
           \/ /\ ~o.ends \/ ~i.ends
              /\ th' = [th EXCEPT ![t].pc = "hung"]
              /\ lock' = [lock EXCEPT ![AtomLock(Idx(th[t].a))] = t]
           \/ /\ o.ends /\ i.ends
              /\ th' = [th EXCEPT ![t] = Return(t, "none", NULL, o.n + i.n)]
              /\ UNCHANGED lock
    /\ UNCHANGED <<plan, action, lk, atom, space, agent, rule, msg, alink, agency,
                   next_atom_id, next_agent_id, gh, lttng>>

(***************************************************************************)
(* cognitive_agent_create(name, task)                                      *)
(***************************************************************************)
\* the agent as cognitive_agent_create initialises it
NewAgent(id) ==
    [st |-> "live", id |-> id, state |-> "IDLE", message_count |-> 0,
     reasoning_cycles |-> 0, actions_executed |-> 0,
     messages_processed |-> 0, messages_sent |-> 0, current_plan |-> NULL]

\* the graph after the agent's queue heads are initialised and the agent is
\* entered into the agency's agents
EnterNewAgent(L, i) ==
    queue_enter(
        queue_init(queue_init(queue_init(queue_init(queue_init(L, GoalsHead(i)),
                                                    BeliefsHead(i)),
                                         KnowledgeHead(i)),
                              MessageHead(i)),
                   PlansHead(i)),
        AgentsHead, AgentN(i))

\* kalloc and the initialisation of the agent, up to the agency lock
agent_create_call(t) ==
    /\ th[t].pc = "idle"
    /\ FreeIds(AgentIds, agent) # {}
    /\ LET i == Lowest(FreeIds(AgentIds, agent))
       IN  /\ agent' = [agent EXCEPT ![i] = NewAgent(next_agent_id)]
           /\ next_agent_id' = next_agent_id + 1
           /\ lk' = queue_init(queue_init(queue_init(queue_init(queue_init(
                                       lk, GoalsHead(i)), BeliefsHead(i)),
                                          KnowledgeHead(i)),
                                     MessageHead(i)),
                          PlansHead(i))
           /\ th' = [th EXCEPT ![t] = [IdleThread EXCEPT !.pc = "ag_lock",
                                          !.op = "agent_create", !.a = AgentN(i)]]
    /\ UNCHANGED <<plan, action, atom, space, rule, msg, alink, agency, lock, next_atom_id, gh, lttng>>

\* under the agency lock: queue_enter into agents, agent_count++
agent_create_register(t) ==
    /\ th[t].pc = "ag_lock"
    /\ simple_lock_free(AgencyLock)
    /\ lk' = queue_enter(lk, AgentsHead, th[t].a)
    /\ agency' = [agency EXCEPT !.agent_count = @ + 1]
    /\ th' = [th EXCEPT ![t] = Return(t, "none", th[t].a, 0)]
    /\ UNCHANGED <<plan, action, atom, space, agent, rule, msg, alink, lock,
                   next_atom_id, next_agent_id, gh, lttng>>

(***************************************************************************)
(* cognitive_agent_create, with agent->id = next_agent_id++ as the load    *)
(* and the store it is made of: no lock is held there.                     *)
(***************************************************************************)
\* kalloc and simple_lock_init: the id is not yet assigned
agent_create_alloc(t) ==
    /\ th[t].pc = "idle"
    /\ FreeIds(AgentIds, agent) # {}
    /\ LET i == Lowest(FreeIds(AgentIds, agent))
       IN  /\ agent' = [agent EXCEPT ![i] = NewAgent(0)]
           /\ th' = [th EXCEPT ![t] = [IdleThread EXCEPT !.pc = "ag_load",
                                          !.op = "agent_create", !.a = AgentN(i)]]
    /\ UNCHANGED <<plan, action, lk, atom, space, rule, msg, alink, agency, lock,
                   next_atom_id, next_agent_id, gh, lttng>>

\* the load of next_agent_id
agent_create_load(t) ==
    /\ th[t].pc = "ag_load"
    /\ th' = [th EXCEPT ![t].pc = "ag_store", ![t].k = next_agent_id]
    /\ UNCHANGED <<plan, action, lk, atom, space, agent, rule, msg, alink, agency, lock,
                   next_atom_id, next_agent_id, gh, lttng>>

\* the store of the loaded value into agent->id and of its successor into
\* next_agent_id, then the initialisation of the agent up to the agency lock
agent_create_store(t) ==
    /\ th[t].pc = "ag_store"
    /\ LET i == Idx(th[t].a)
       IN  /\ agent' = [agent EXCEPT ![i].id = th[t].k]
           /\ next_agent_id' = th[t].k + 1
           /\ lk' = queue_init(queue_init(queue_init(queue_init(queue_init(
                                       lk, GoalsHead(i)), BeliefsHead(i)),
                                          KnowledgeHead(i)),
                                     MessageHead(i)),
                          PlansHead(i))
           /\ th' = [th EXCEPT ![t].pc = "ag_lock"]
    /\ UNCHANGED <<plan, action, atom, space, rule, msg, alink, agency, lock,
                   next_atom_id, gh, lttng>>

(***************************************************************************)
(* Messaging: cognitive_agent_send_message, _receive_message.              *)
(***************************************************************************)
IsAgent(n) == n[1] = "agent"
AllIdleBut(t) == \A u \in Threads \ {t} : th[u].pc = "idle"

\* the call: kalloc of the envelope and its initialisation, up to from->lock
send_message_call(t, from, to, message) ==
    /\ th[t].pc = "idle"
    /\ IsAgent(from) /\ agent[Idx(from)].st = "live"
    /\ IsAgent(to) /\ agent[Idx(to)].st = "live"
    /\ IsAtom(message) /\ atom[Idx(message)].st = "live"
    /\ FreeIds(MsgIds, msg) # {}
    /\ LET m == Lowest(FreeIds(MsgIds, msg))
       IN  /\ msg' = [msg EXCEPT ![m] = [st |-> "live", sender |-> from,
                                         content |-> message]]
           /\ th' = [th EXCEPT ![t] = [IdleThread EXCEPT !.pc = "sm_from",
                                          !.op = "send_message", !.a = from,
                                          !.b = to, !.cur = MsgN(m)]]
    /\ gh' = [gh EXCEPT !.pair =
                 IF AllIdleBut(t) /\ queue_empty(lk, MessageHead(Idx(to)))
                 THEN [stage |-> 1, t |-> t, x |-> Idx(from), y |-> Idx(to),
                       m |-> message,
                       sent0 |-> agent[Idx(from)].messages_sent,
                       proc0 |-> agent[Idx(to)].messages_processed]
                 ELSE NoPair]
    /\ UNCHANGED <<plan, action, lk, atom, space, agent, rule, alink, agency, lock,
                   next_atom_id, next_agent_id, lttng>>

\* under from->lock: state = COMMUNICATING, messages_sent++
send_message_from(t) ==
    /\ th[t].pc = "sm_from"
    /\ simple_lock_free(AgentLock(Idx(th[t].a)))
    /\ agent' = [agent EXCEPT ![Idx(th[t].a)].state = "COMMUNICATING",
                              ![Idx(th[t].a)].messages_sent = @ + 1]
    /\ th' = [th EXCEPT ![t].pc = "sm_to"]
    /\ UNCHANGED <<plan, action, lk, atom, space, rule, msg, alink, agency, lock,
                   next_atom_id, next_agent_id, gh, lttng>>

\* send_message_to without to->message_count++
send_message_to_uncounted(t) ==
    /\ th[t].pc = "sm_to"
    /\ simple_lock_free(AgentLock(Idx(th[t].b)))
    /\ LET y == Idx(th[t].b)
           m == th[t].cur
       IN  /\ atom' = [atom EXCEPT ![Idx(msg[Idx(m)].content)].ref_count = @ + 1]
           /\ lk' = queue_enter(lk, MessageHead(y), m)
           /\ agent' = [agent EXCEPT ![y].messages_processed = @ + 1]
           /\ gh' = [gh EXCEPT !.sent[y] = Append(@, m)]
    /\ th' = [th EXCEPT ![t] = [IdleThread EXCEPT !.op = "send_message",
                                   !.ret = "KERN_SUCCESS"]]
    /\ UNCHANGED <<plan, action, space, rule, msg, alink, agency, lock, next_atom_id, next_agent_id, lttng>>

\* an enqueue at the head of the recipient's queue
send_message_to_athead(t) ==
    /\ th[t].pc = "sm_to"
    /\ simple_lock_free(AgentLock(Idx(th[t].b)))
    /\ LET y == Idx(th[t].b)
           m == th[t].cur
           first == lk[MessageHead(y)].next
           L1 == [lk EXCEPT ![m] = [next |-> first, prev |-> MessageHead(y)]]
           L2 == [L1 EXCEPT ![first].prev = m]
       IN  /\ atom' = [atom EXCEPT ![Idx(msg[Idx(m)].content)].ref_count = @ + 1]
           /\ lk' = [L2 EXCEPT ![MessageHead(y)].next = m]
           /\ agent' = [agent EXCEPT ![y].message_count = @ + 1,
                                     ![y].messages_processed = @ + 1]
           /\ gh' = [gh EXCEPT !.sent[y] = Append(@, m)]
    /\ th' = [th EXCEPT ![t] = [IdleThread EXCEPT !.op = "send_message",
                                   !.ret = "KERN_SUCCESS"]]
    /\ UNCHANGED <<plan, action, space, rule, msg, alink, agency, lock, next_atom_id, next_agent_id, lttng>>

\* under to->lock: message->ref_count++, queue_enter into to->message_queue,
\* message_count++, messages_processed++
send_message_to(t) ==
    /\ th[t].pc = "sm_to"
    /\ simple_lock_free(AgentLock(Idx(th[t].b)))
    /\ LET y == Idx(th[t].b)
           m == th[t].cur
       IN  /\ atom' = [atom EXCEPT ![Idx(msg[Idx(m)].content)].ref_count = @ + 1]
           /\ lk' = queue_enter(lk, MessageHead(y), m)
           /\ agent' = [agent EXCEPT ![y].message_count = @ + 1,
                                     ![y].messages_processed = @ + 1]
           /\ gh' = [gh EXCEPT !.sent[y] = Append(@, m)]
    /\ th' = [th EXCEPT ![t] = [IdleThread EXCEPT !.op = "send_message",
                                   !.ret = "KERN_SUCCESS"]]
    /\ UNCHANGED <<plan, action, space, rule, msg, alink, agency, lock, next_atom_id, next_agent_id, lttng>>

\* the call, up to simple_lock(&agent->lock)
receive_message_call(t, a) ==
    /\ th[t].pc = "idle"
    /\ IsAgent(a) /\ agent[Idx(a)].st = "live"
    /\ th' = [th EXCEPT ![t] = [IdleThread EXCEPT !.pc = "rm_lock",
                                   !.op = "receive_message", !.a = a]]
    /\ gh' = [gh EXCEPT !.pair =
                 IF /\ gh.pair.stage = 1 /\ gh.pair.t = t /\ gh.pair.y = Idx(a)
                    /\ AllIdleBut(t)
                 THEN [gh.pair EXCEPT !.stage = 2]
                 ELSE NoPair]
    /\ UNCHANGED <<plan, action, lk, atom, space, agent, rule, msg, alink, agency, lock,
                   next_atom_id, next_agent_id, lttng>>

\* a dequeue that counts the message as processed and counts down even when
\* the queue is empty
receive_message_dequeue_counting(t) ==
    /\ th[t].pc = "rm_lock"
    /\ simple_lock_free(AgentLock(Idx(th[t].a)))
    /\ LET y == Idx(th[t].a)
           head == MessageHead(y)
           m == lk[head].next
       IN  IF queue_empty(lk, head)
           THEN /\ th' = [th EXCEPT ![t] = [IdleThread EXCEPT !.op = "receive_message",
                                               !.ret = "KERN_SUCCESS"]]
                /\ agent' = [agent EXCEPT ![y].messages_processed = @ + 1]
                /\ UNCHANGED <<lk, msg, gh>>
           ELSE /\ lk' = queue_remove_first(lk, head)
                /\ agent' = [agent EXCEPT ![y].message_count = @ - 1,
                                          ![y].messages_processed = @ + 1]
                /\ msg' = [msg EXCEPT ![Idx(m)].st = "freed"]
                /\ gh' = [gh EXCEPT !.rcvd[y] = Append(@, m)]
                /\ th' = [th EXCEPT ![t] = [IdleThread EXCEPT !.op = "receive_message",
                                               !.ret = "KERN_SUCCESS",
                                               !.out = msg[Idx(m)].content]]
    /\ UNCHANGED <<plan, action, atom, space, rule, alink, agency, lock, next_atom_id, next_agent_id, lttng>>

\* under agent->lock: an empty queue gives null; else queue_remove_first and
\* message_count--; then *message = msg->content and kfree(msg)
receive_message_dequeue(t) ==
    /\ th[t].pc = "rm_lock"
    /\ simple_lock_free(AgentLock(Idx(th[t].a)))
    /\ LET y == Idx(th[t].a)
           head == MessageHead(y)
           m == lk[head].next
       IN  IF queue_empty(lk, head)
           THEN /\ th' = [th EXCEPT ![t] = [IdleThread EXCEPT !.op = "receive_message",
                                               !.ret = "KERN_SUCCESS"]]
                /\ UNCHANGED <<lk, agent, msg, gh>>
           ELSE /\ lk' = queue_remove_first(lk, head)
                /\ agent' = [agent EXCEPT ![y].message_count = @ - 1]
                /\ msg' = [msg EXCEPT ![Idx(m)].st = "freed"]
                /\ gh' = [gh EXCEPT !.rcvd[y] = Append(@, m)]
                /\ th' = [th EXCEPT ![t] = [IdleThread EXCEPT !.op = "receive_message",
                                               !.ret = "KERN_SUCCESS",
                                               !.out = msg[Idx(m)].content]]
    /\ UNCHANGED <<plan, action, atom, space, rule, alink, agency, lock, next_atom_id, next_agent_id, lttng>>

(***************************************************************************)
(* cognitive_agent_add_belief(agent, belief)                               *)
(***************************************************************************)
\* the call, up to simple_lock(&agent->lock)
add_belief_call(t, a, belief) ==
    /\ th[t].pc = "idle"
    /\ IsAgent(a) /\ agent[Idx(a)].st = "live"
    /\ IsAtom(belief) /\ atom[Idx(belief)].st = "live"
    /\ atom[Idx(belief)].ref_count < MaxRefs
    /\ Len(gh.beliefs[Idx(a)]) < MaxBeliefs
    /\ th' = [th EXCEPT ![t] = [IdleThread EXCEPT !.pc = "ab_lock", !.op = "add_belief",
                                   !.a = a, !.b = belief]]
    /\ UNCHANGED <<plan, action, lk, atom, space, agent, rule, msg, alink, agency, lock,
                   next_atom_id, next_agent_id, gh, lttng>>

\* under agent->lock: belief->ref_count++, queue_enter into agent->beliefs
\* through the atom's own chain
add_belief_enter(t) ==
    /\ th[t].pc = "ab_lock"
    /\ simple_lock_free(AgentLock(Idx(th[t].a)))
    /\ atom' = [atom EXCEPT ![Idx(th[t].b)].ref_count = @ + 1]
    /\ lk' = queue_enter(lk, BeliefsHead(Idx(th[t].a)), th[t].b)
    /\ gh' = [gh EXCEPT !.beliefs[Idx(th[t].a)] = Append(@, th[t].b)]
    /\ th' = [th EXCEPT ![t] = [IdleThread EXCEPT !.op = "add_belief",
                                   !.ret = "KERN_SUCCESS"]]
    /\ UNCHANGED <<plan, action, space, agent, rule, msg, alink, agency, lock,
                   next_atom_id, next_agent_id, lttng>>

\* belief->ref_count++ as the load and the store it compiles to, for callers
\* that run beside each other: under agent->lock, the load of ref_count
add_belief_load(t) ==
    /\ th[t].pc = "ab_lock"
    /\ simple_lock_free(AgentLock(Idx(th[t].a)))
    /\ lock' = [lock EXCEPT ![AgentLock(Idx(th[t].a))] = t]
    /\ th' = [th EXCEPT ![t].pc = "ab_store", ![t].k = atom[Idx(th[t].b)].ref_count]
    /\ UNCHANGED <<plan, action, lk, atom, space, agent, rule, msg, alink, agency,
                   next_atom_id, next_agent_id, gh, lttng>>

\* the store of the loaded value plus one, queue_enter into agent->beliefs
\* and simple_unlock(&agent->lock)
add_belief_store(t) ==
    /\ th[t].pc = "ab_store"
    /\ atom' = [atom EXCEPT ![Idx(th[t].b)].ref_count = th[t].k + 1]
    /\ lk' = queue_enter(lk, BeliefsHead(Idx(th[t].a)), th[t].b)
    /\ gh' = [gh EXCEPT !.beliefs[Idx(th[t].a)] = Append(@, th[t].b)]
    /\ lock' = [lock EXCEPT ![AgentLock(Idx(th[t].a))] = NoThread]
    /\ th' = [th EXCEPT ![t] = [IdleThread EXCEPT !.op = "add_belief",
                                   !.ret = "KERN_SUCCESS"]]
    /\ UNCHANGED <<plan, action, space, agent, rule, msg, alink, agency,
                   next_atom_id, next_agent_id, lttng>>

(***************************************************************************)
(* Rules: cognitive_rule_create, cognitive_agency_add_rule,                *)
(* cognitive_agent_apply_rules.                                            *)
(***************************************************************************)
\* rule_create: the threshold check, kalloc and the initialisation
rule_create(t, cond, concl, threshold) ==
    /\ th[t].pc = "idle"
    /\ FreeIds(RuleIds, rule) # {}
    /\ LET r == Lowest(FreeIds(RuleIds, rule))
       IN  IF threshold < 0 \/ threshold > One
           THEN /\ th' = [th EXCEPT ![t] = [IdleThread EXCEPT !.op = "rule_create"]]
                /\ UNCHANGED rule
           ELSE /\ rule' = [rule EXCEPT ![r] =
                              [st |-> "live", condition_type |-> cond,
                               conclusion_type |-> concl,
                               confidence_threshold |-> threshold,
                               times_applied |-> 0, added |-> FALSE]]
                /\ th' = [th EXCEPT ![t] = [IdleThread EXCEPT !.op = "rule_create",
                                               !.out = RuleN(r)]]
    /\ UNCHANGED <<plan, action, lk, atom, space, agent, msg, alink, agency, lock,
                   next_atom_id, next_agent_id, gh, lttng>>

\* agency_add_rule, for a rule not yet added: under the agency lock,
\* queue_enter into rules and rule_count++
agency_add_rule(t, r) ==
    /\ th[t].pc = "idle"
    /\ rule[r].st = "live" /\ ~rule[r].added
    /\ simple_lock_free(AgencyLock)
    /\ lk' = queue_enter(lk, RulesHead, RuleN(r))
    /\ rule' = [rule EXCEPT ![r].added = TRUE]
    /\ agency' = [agency EXCEPT !.rule_count = @ + 1]
    /\ th' = [th EXCEPT ![t] = [IdleThread EXCEPT !.op = "add_rule",
                                   !.ret = "KERN_SUCCESS"]]
    /\ UNCHANGED <<plan, action, atom, space, agent, msg, alink, lock,
                   next_atom_id, next_agent_id, gh, lttng>>

\* strength * 0.8f and confidence * 0.9f
Mul08(x) == IF x = NaN THEN NaN ELSE (x * 8) \div 10
Mul09(x) == IF x = NaN THEN NaN ELSE (x * 9) \div 10

\* the condition of a rule on an atom: type and confidence threshold
RuleMatches(r, i) ==
    /\ atom[i].type = rule[r].condition_type
    /\ FGeq(atom[i].confidence, rule[r].confidence_threshold)

\* the (rule, belief) pairs that match, rules in registry order and beliefs
\* in the order they were added; computed on the history, not on the queues
RECURSIVE PairsOf(_, _, _)
PairsOf(rs, bs, j) ==
    IF rs = <<>> THEN <<>>
    ELSE IF j > Len(bs) THEN PairsOf(Tail(rs), bs, 1)
         ELSE (IF RuleMatches(Idx(Head(rs)), Idx(bs[j]))
               THEN <<[rule |-> Idx(Head(rs)), belief |-> bs[j]]>>
               ELSE <<>>) \o PairsOf(rs, bs, j + 1)

\* the call: the null checks, up to simple_lock(&agent->lock)
apply_rules_call(t, a) ==
    /\ th[t].pc = "idle"
    /\ IsAgent(a) /\ agent[Idx(a)].st = "live"
    /\ IF ~agency.atomspace
       THEN /\ th' = [th EXCEPT ![t] = [IdleThread EXCEPT !.op = "apply_rules",
                                           !.ret = "KERN_INVALID_ARGUMENT"]]
            /\ UNCHANGED gh
       ELSE /\ th' = [th EXCEPT ![t] = [IdleThread EXCEPT !.pc = "ar_agent",
                                           !.op = "apply_rules", !.a = a]]
            /\ gh' = [gh EXCEPT
                        !.expected = PairsOf(queue_iterate(lk, RulesHead).elts,
                                             gh.beliefs[Idx(a)], 1),
                        !.derived = <<>>,
                        !.count0 = space.atom_count,
                        !.applied0 = [r \in RuleIds |-> rule[r].times_applied]]
    /\ UNCHANGED <<plan, action, lk, atom, space, agent, rule, msg, alink, agency, lock,
                   next_atom_id, next_agent_id, lttng>>

\* simple_lock(&agent->lock); state = REASONING
apply_rules_lock_agent(t) ==
    /\ th[t].pc = "ar_agent"
    /\ simple_lock_free(AgentLock(Idx(th[t].a)))
    /\ lock' = [lock EXCEPT ![AgentLock(Idx(th[t].a))] = t]
    /\ agent' = [agent EXCEPT ![Idx(th[t].a)].state = "REASONING"]
    /\ th' = [th EXCEPT ![t].pc = "ar_agency"]
    /\ UNCHANGED <<plan, action, lk, atom, space, rule, msg, alink, agency,
                   next_atom_id, next_agent_id, gh, lttng>>

\* simple_lock(&global_cognitive_agency.lock), with the agent lock held;
\* the outer loop starts at the first rule
apply_rules_lock_agency(t) ==
    /\ th[t].pc = "ar_agency"
    /\ simple_lock_free(AgencyLock)
    /\ lock' = [lock EXCEPT ![AgencyLock] = t]
    /\ th' = [th EXCEPT ![t].pc = "ar_rule", ![t].rcur = lk[RulesHead].next]
    /\ UNCHANGED <<plan, action, lk, atom, space, agent, rule, msg, alink, agency,
                   next_atom_id, next_agent_id, gh, lttng>>

\* apply_rules_rule with the return test rules_applied >= 0
apply_rules_rule_geq(t) ==
    /\ th[t].pc = "ar_rule"
    /\ IF th[t].rcur = RulesHead
       THEN /\ lock' = [lock EXCEPT ![AgencyLock] = NoThread,
                                    ![AgentLock(Idx(th[t].a))] = NoThread]
            /\ agent' = [agent EXCEPT ![Idx(th[t].a)].state = "IDLE"]
            /\ th' = [th EXCEPT ![t] =
                        [IdleThread EXCEPT !.op = "apply_rules", !.a = th[t].a,
                            !.n = th[t].k,
                            !.ret = IF th[t].k >= 0 THEN "KERN_SUCCESS"
                                                   ELSE "KERN_FAILURE"]]
       ELSE /\ th' = [th EXCEPT ![t].pc = "ar_belief",
                                ![t].cur = lk[BeliefsHead(Idx(th[t].a))].next]
            /\ UNCHANGED <<lock, agent>>
    /\ UNCHANGED <<plan, action, lk, atom, space, rule, msg, alink, agency,
                   next_atom_id, next_agent_id, gh, lttng>>

\* the outer loop: at the end of the rules unlock both, state = IDLE, and
\* return by rules_applied; else start the inner loop at the first belief
apply_rules_rule(t) ==
    /\ th[t].pc = "ar_rule"
    /\ IF th[t].rcur = RulesHead
       THEN /\ lock' = [lock EXCEPT ![AgencyLock] = NoThread,
                                    ![AgentLock(Idx(th[t].a))] = NoThread]
            /\ agent' = [agent EXCEPT ![Idx(th[t].a)].state = "IDLE"]
            /\ th' = [th EXCEPT ![t] =
                        IF th[t].op = "reason"
                        THEN [th[t] EXCEPT !.pc = "rs_idle"]
                        ELSE [IdleThread EXCEPT !.op = "apply_rules", !.a = th[t].a,
                                 !.n = th[t].k,
                                 !.ret = IF th[t].k > 0 THEN "KERN_SUCCESS"
                                                        ELSE "KERN_FAILURE"]]
       ELSE /\ th' = [th EXCEPT ![t].pc = "ar_belief",
                                ![t].cur = lk[BeliefsHead(Idx(th[t].a))].next]
            /\ UNCHANGED <<lock, agent>>
    /\ UNCHANGED <<plan, action, lk, atom, space, rule, msg, alink, agency,
                   next_atom_id, next_agent_id, gh, lttng>>

\* the element the inner loop stands on is an atom that is alive; anything
\* else (a queue head taken for an atom, a freed atom) is read as garbage
ReadableAtom(n) == IsAtom(n) /\ atom[Idx(n)].st = "live"

\* the inner loop would create an atom on n: the rule matches and the
\* Atomspace has room
WouldCreate(r, n) ==
    /\ ReadableAtom(n) /\ RuleMatches(r, Idx(n))
    /\ space.atom_count < space.max_atoms

\* from cur on, the inner loop changes nothing and never meets the head of
\* the beliefs again
LoopsForever(r, head, cur) ==
    LET w == Walk(lk, head, cur, <<>>)
    IN  /\ ~w.ends
        /\ \A j \in 1 .. Len(w.elts) : ~WouldCreate(r, w.elts[j])

\* one turn of the inner loop with a match: cognitive_atom_create (under the
\* space lock), set_truth, ref_count++, queue_enter into knowledge,
\* times_applied++, rules_applied++; then the step to the next element
apply_rules_derive(t, r, y, cur) ==
    LET i == Lowest(FreeIds(AtomIds, atom))
        b == atom[Idx(cur)]
        L1 == queue_enter(EnterNewAtom(lk, i), KnowledgeHead(y), AtomN(i))
    IN  /\ simple_lock_free(SpaceLock) /\ simple_lock_free(AtomLock(i))
        /\ atom' = [atom EXCEPT ![i] =
                      [NewAtom(rule[r].conclusion_type, "inferred_knowledge",
                               next_atom_id)
                         EXCEPT !.strength = Mul08(b.strength),
                                !.confidence = Mul09(b.confidence),
                                !.count = 1, !.ref_count = 2]]
        /\ next_atom_id' = next_atom_id + 1
        /\ space' = [space EXCEPT !.atom_count = @ + 1]
        /\ lk' = L1
        /\ rule' = [rule EXCEPT ![r].times_applied = @ + 1]
        /\ gh' = [gh EXCEPT !.derived =
                     Append(@, [rule |-> r, belief |-> cur, new |-> AtomN(i)])]
        /\ th' = [th EXCEPT ![t].k = @ + 1, ![t].cur = L1[cur].next]

\* the inner loop: one turn
apply_rules_belief(t) ==
    /\ th[t].pc = "ar_belief"
    /\ LET y == Idx(th[t].a)
           r == Idx(th[t].rcur)
           cur == th[t].cur
       IN  IF cur = BeliefsHead(y)
           THEN /\ th' = [th EXCEPT ![t].pc = "ar_rule",
                                    ![t].rcur = lk[th[t].rcur].next]
                /\ UNCHANGED <<lk, atom, space, rule, next_atom_id, gh>>
           ELSE IF LoopsForever(r, BeliefsHead(y), cur)
                THEN /\ th' = [th EXCEPT ![t].pc = "hung"]
                     /\ UNCHANGED <<lk, atom, space, rule, next_atom_id, gh>>
                ELSE IF WouldCreate(r, cur)
                     THEN apply_rules_derive(t, r, y, cur)
                     ELSE /\ \/ th' = [th EXCEPT ![t].cur = lk[cur].next]
                             \/ /\ ~ReadableAtom(cur)
                                /\ th' = [th EXCEPT ![t].pc = "undefined"]
                          /\ UNCHANGED <<lk, atom, space, rule, next_atom_id, gh>>
    /\ UNCHANGED <<plan, action, agent, msg, alink, agency, lock, next_agent_id, lttng>>

(***************************************************************************)
(* The inner loop of apply_rules, read by read: the belief's truth is read *)
(* three times without atom->lock, for the threshold test, for the         *)
(* strength and for the confidence handed to cognitive_atom_set_truth.     *)
(***************************************************************************)
\* the head of the loop and its condition: atom->type == rule->condition_type
\* && atom->truth.confidence >= rule->confidence_threshold
apply_rules_test(t) ==
    /\ th[t].pc = "ar_belief"
    /\ LET y == Idx(th[t].a)
           r == Idx(th[t].rcur)
           cur == th[t].cur
       IN  IF cur = BeliefsHead(y)
           THEN th' = [th EXCEPT ![t].pc = "ar_rule",
                                 ![t].rcur = lk[th[t].rcur].next]
           ELSE IF ~ReadableAtom(cur)
                THEN th' = [th EXCEPT ![t].pc = "undefined"]
                ELSE IF WouldCreate(r, cur)
                     THEN th' = [th EXCEPT ![t].pc = "ar_strength",
                                           ![t].c = atom[Idx(cur)].confidence]
                     ELSE th' = [th EXCEPT ![t].cur = lk[cur].next]
    /\ UNCHANGED <<plan, action, lk, atom, space, agent, rule, msg, alink, agency, lock,
                   next_atom_id, next_agent_id, gh, lttng>>

\* the first argument of set_truth: the read of atom->truth.strength
apply_rules_strength(t) ==
    /\ th[t].pc = "ar_strength"
    /\ th' = [th EXCEPT ![t].pc = "ar_confidence",
                        ![t].s = atom[Idx(th[t].cur)].strength]
    /\ UNCHANGED <<plan, action, lk, atom, space, agent, rule, msg, alink, agency, lock,
                   next_atom_id, next_agent_id, gh, lttng>>

\* the second argument: the read of atom->truth.confidence; with both, the
\* new atom (created under the space lock), set_truth on it, ref_count++,
\* queue_enter into knowledge, times_applied++, rules_applied++, and the
\* step to the next belief
apply_rules_confidence(t) ==
    /\ th[t].pc = "ar_confidence"
    /\ simple_lock_free(SpaceLock)
    /\ FreeIds(AtomIds, atom) # {}
    /\ LET i == Lowest(FreeIds(AtomIds, atom))
           y == Idx(th[t].a)
           r == Idx(th[t].rcur)
           cur == th[t].cur
           L1 == queue_enter(EnterNewAtom(lk, i), KnowledgeHead(y), AtomN(i))
       IN  /\ atom' = [atom EXCEPT ![i] =
                         [NewAtom(rule[r].conclusion_type, "inferred_knowledge",
                                  next_atom_id)
                            EXCEPT !.strength = Mul08(th[t].s),
                                   !.confidence = Mul09(atom[Idx(cur)].confidence),
                                   !.count = 1, !.ref_count = 2]]
           /\ next_atom_id' = next_atom_id + 1
           /\ space' = [space EXCEPT !.atom_count = @ + 1]
           /\ lk' = L1
           /\ rule' = [rule EXCEPT ![r].times_applied = @ + 1]
           /\ gh' = [gh EXCEPT !.derived =
                        Append(@, [rule |-> r, belief |-> cur, new |-> AtomN(i)])]
           /\ th' = [th EXCEPT ![t].pc = "ar_belief", ![t].k = @ + 1,
                               ![t].cur = L1[cur].next]
    /\ UNCHANGED <<plan, action, agent, msg, alink, agency, lock, next_agent_id, lttng>>

(***************************************************************************)
(* Plans: cognitive_plan_create, cognitive_action_create,                  *)
(* cognitive_plan_add_action, cognitive_agent_create_plan,                 *)
(* cognitive_agent_execute_plan, cognitive_agent_act.                      *)
(***************************************************************************)
IsPlan(n) == n[1] = "plan"

\* cognitive_action_create(name, precondition, effect, cost)
action_create(name, precondition, effect, cost) ==
    [st |-> "live", name |-> name, precondition |-> precondition,
     effect |-> effect, cost |-> cost, completed |-> FALSE]

\* cognitive_plan_add_action on the state S = [lk, plan, action]: queue_enter
\* into plan->actions, action_count++, total_cost += cost
plan_add_action(S, p, i) ==
    [lk |-> queue_enter(S.lk, ActionsHead(p), ActionN(i)),
     plan |-> [S.plan EXCEPT ![p].action_count = @ + 1,
                             ![p].total_cost = @ + S.action[i].cost],
     action |-> S.action]

\* the body of create_plan's loop for one belief of strength > 0.5f: the
\* actions "analyze_state" (1.0f) and "execute_optimization" (2.0f)
PlanForBelief(S, p, belief, goal) ==
    LET i1 == Lowest(FreeIds(ActionIds, S.action))
        S1 == plan_add_action(
                  [S EXCEPT !.action[i1] =
                      action_create("analyze_state", belief, goal, One)],
                  p, i1)
        i2 == Lowest(FreeIds(ActionIds, S1.action))
    IN  plan_add_action(
            [S1 EXCEPT !.action[i2] =
                action_create("execute_optimization", belief, goal, 2 * One)],
            p, i2)

\* create_plan's loop over the elements a walk of the beliefs meets
RECURSIVE PlanLoop(_, _, _, _)
PlanLoop(S, p, elts, goal) ==
    IF elts = <<>> THEN S
    ELSE LET e == Head(elts)
             S1 == IF ReadableAtom(e) /\ atom[Idx(e)].strength > Half
                   THEN PlanForBelief(S, p, e, goal)
                   ELSE S
         IN  PlanLoop(S1, p, Tail(elts), goal)

\* a last step of create_plan taking the new plan whatever the current plan is
current_plan_latest(current_plan, new_plan) ==
    new_plan

\* create_plan's last step: the new plan becomes the current plan if the
\* agent has none
current_plan_set(current_plan, new_plan) ==
    IF current_plan = NULL THEN new_plan ELSE current_plan

\* create_plan: the null checks, up to simple_lock(&agent->lock)
create_plan_call(t, a, goal) ==
    /\ th[t].pc = "idle"
    /\ IsAgent(a) /\ agent[Idx(a)].st = "live"
    /\ IsAtom(goal) /\ atom[Idx(goal)].st = "live"
    /\ atom[Idx(goal)].ref_count < MaxRefs
    /\ FreeIds(PlanIds, plan) # {}
    /\ th' = [th EXCEPT ![t] = [IdleThread EXCEPT !.pc = "cp_lock",
                                   !.op = "create_plan", !.a = a, !.b = goal]]
    /\ UNCHANGED <<lk, atom, space, agent, rule, msg, alink, agency, lock,
                   next_atom_id, next_agent_id, gh, plan, action, lttng>>

\* under agent->lock: cognitive_plan_create (goal->ref_count++), the loop
\* over the beliefs, queue_enter into agent->plans, and current_plan = plan if
\* there is none
create_plan_build(t) ==
    /\ th[t].pc = "cp_lock"
    /\ simple_lock_free(AgentLock(Idx(th[t].a)))
    /\ LET y == Idx(th[t].a)
           goal == th[t].b
           p == Lowest(FreeIds(PlanIds, plan))
           w == queue_iterate(lk, BeliefsHead(y))
           S0 == [lk |-> queue_init(lk, ActionsHead(p)),
                  plan |-> [plan EXCEPT ![p] =
                              [st |-> "live", goal |-> goal, action_count |-> 0,
                               total_cost |-> 0, valid |-> TRUE]],
                  action |-> action]
           S1 == PlanLoop(S0, p, w.elts, goal)
           unreadable == \E j \in 1 .. Len(w.elts) : ~ReadableAtom(w.elts[j])
       IN  /\ atom' = [atom EXCEPT ![Idx(goal)].ref_count = @ + 1]
           /\ gh' = [gh EXCEPT !.made = PlanN(p),
                               !.cur0 = agent[y].current_plan,
                               !.count0 = atom[Idx(goal)].ref_count]
           /\ IF ~w.ends
              THEN /\ th' = [th EXCEPT ![t].pc = "hung"]
                   /\ lock' = [lock EXCEPT ![AgentLock(y)] = t]
                   /\ plan' = S0.plan
                   /\ lk' = S0.lk
                   /\ UNCHANGED <<agent, action>>
              ELSE \/ /\ unreadable
                      /\ th' = [th EXCEPT ![t].pc = "undefined"]
                      /\ lock' = [lock EXCEPT ![AgentLock(y)] = t]
                      /\ plan' = S0.plan
                      /\ lk' = S0.lk
                      /\ UNCHANGED <<agent, action>>
                   \/ /\ lk' = queue_enter(S1.lk, PlansHead(y), PlanN(p))
                      /\ plan' = S1.plan
                      /\ action' = S1.action
                      /\ agent' = [agent EXCEPT ![y].current_plan =
                                      current_plan_set(@, PlanN(p))]
                      /\ th' = [th EXCEPT ![t] =
                                  [IdleThread EXCEPT !.op = "create_plan",
                                      !.a = th[t].a, !.b = goal,
                                      !.ret = "KERN_SUCCESS"]]
                      /\ UNCHANGED lock
    /\ UNCHANGED <<space, rule, msg, alink, agency, next_atom_id, next_agent_id, lttng>>

\* the actions of plan p, as a walk of plan->actions finds them
ActionsOf(p) == queue_iterate(lk, ActionsHead(p)).elts

\* a test after execute_plan's loop that passes only beyond the plan's count
plan_finished_gt(actions_completed, action_count) ==
    actions_completed > action_count

\* execute_plan's test after the loop: every action of the plan was completed
\* by this call
plan_finished(actions_completed, action_count) ==
    actions_completed = action_count

\* execute_plan: the null check, up to simple_lock(&agent->lock)
execute_plan_call(t, a) ==
    /\ th[t].pc = "idle"
    /\ IsAgent(a) /\ agent[Idx(a)].st = "live"
    /\ agent[Idx(a)].actions_executed < MaxActs
    /\ th' = [th EXCEPT ![t] = [IdleThread EXCEPT !.pc = "ep_lock",
                                   !.op = "execute_plan", !.a = a]]
    /\ UNCHANGED <<lk, atom, space, agent, rule, msg, alink, agency, lock,
                   next_atom_id, next_agent_id, gh, plan, action, lttng>>

\* under agent->lock: without a current plan return KERN_INVALID_ARGUMENT;
\* else complete every action not completed, count them into
\* actions_executed, and when all of the plan's actions were completed by
\* this call, valid = FALSE and current_plan = NULL; state = IDLE
execute_plan_run(t) ==
    /\ th[t].pc = "ep_lock"
    /\ simple_lock_free(AgentLock(Idx(th[t].a)))
    /\ LET y == Idx(th[t].a)
           cp == agent[y].current_plan
       IN  IF cp = NULL
           THEN /\ th' = [th EXCEPT ![t] =
                            [IdleThread EXCEPT !.op = th[t].op, !.a = th[t].a,
                                !.ret = "KERN_INVALID_ARGUMENT"]]
                /\ gh' = [gh EXCEPT !.made = NULL, !.exec0 = agent[y].actions_executed,
                                    !.todo = 0]
                /\ UNCHANGED <<agent, plan, action>>
           ELSE LET p == Idx(cp)
                    acts == ActionsOf(p)
                    open == {j \in 1 .. Len(acts) : ~action[Idx(acts[j])].completed}
                    actions_completed == Cardinality(open)
                    done == plan_finished(actions_completed, plan[p].action_count)
                IN  /\ action' = [i \in ActionIds |->
                                    IF \E j \in open : Idx(acts[j]) = i
                                    THEN [action[i] EXCEPT !.completed = TRUE]
                                    ELSE action[i]]
                    /\ plan' = [plan EXCEPT ![p].valid = IF done THEN FALSE ELSE @]
                    /\ agent' = [agent EXCEPT
                                   ![y].actions_executed = @ + actions_completed,
                                   ![y].current_plan = IF done THEN NULL ELSE @,
                                   ![y].state = "IDLE"]
                    /\ gh' = [gh EXCEPT !.made = cp,
                                        !.exec0 = agent[y].actions_executed,
                                        !.todo = actions_completed]
                    /\ th' = [th EXCEPT ![t] =
                                [IdleThread EXCEPT !.op = th[t].op, !.a = th[t].a,
                                    !.ret = "KERN_SUCCESS"]]
    /\ UNCHANGED <<lk, atom, space, rule, msg, alink, agency, lock,
                   next_atom_id, next_agent_id, lttng>>

\* act: the null check and the test of agent->current_plan, read without the
\* agent lock: with a plan go on as execute_plan, else up to simple_lock
act_call(t, a) ==
    /\ th[t].pc = "idle"
    /\ IsAgent(a) /\ agent[Idx(a)].st = "live"
    /\ agent[Idx(a)].actions_executed < MaxActs
    /\ th' = [th EXCEPT ![t] =
                [IdleThread EXCEPT !.op = "act", !.a = a,
                    !.pc = IF agent[Idx(a)].current_plan # NULL
                           THEN "ep_lock" ELSE "act_lock"]]
    /\ UNCHANGED <<lk, atom, space, agent, rule, msg, alink, agency, lock,
                   next_atom_id, next_agent_id, gh, plan, action, lttng>>

\* act without a plan, under agent->lock: state = ACTING, actions_executed++,
\* state = IDLE
act_default(t) ==
    /\ th[t].pc = "act_lock"
    /\ simple_lock_free(AgentLock(Idx(th[t].a)))
    /\ agent' = [agent EXCEPT ![Idx(th[t].a)].actions_executed = @ + 1,
                              ![Idx(th[t].a)].state = "IDLE"]
    /\ gh' = [gh EXCEPT !.made = NULL,
                        !.exec0 = agent[Idx(th[t].a)].actions_executed,
                        !.todo = 1]
    /\ th' = [th EXCEPT ![t] = [IdleThread EXCEPT !.op = "act", !.a = th[t].a,
                                   !.ret = "KERN_SUCCESS"]]
    /\ UNCHANGED <<lk, atom, space, rule, msg, alink, agency, lock,
                   next_atom_id, next_agent_id, plan, action, lttng>>

(***************************************************************************)
(* Agent collections and state: cognitive_agent_add_goal, _learn, _reason, *)
(* _pending_messages, _get_state.                                          *)
(***************************************************************************)
\* add_goal: the null checks, up to simple_lock(&agent->lock)
add_goal_call(t, a, goal) ==
    /\ th[t].pc = "idle"
    /\ IsAgent(a) /\ agent[Idx(a)].st = "live"
    /\ IsAtom(goal) /\ atom[Idx(goal)].st = "live"
    /\ atom[Idx(goal)].ref_count < MaxRefs
    /\ Len(gh.goals[Idx(a)]) < MaxBeliefs
    /\ th' = [th EXCEPT ![t] = [IdleThread EXCEPT !.pc = "ag_lock", !.op = "add_goal",
                                   !.a = a, !.b = goal]]
    /\ UNCHANGED <<plan, action, lk, atom, space, agent, rule, msg, alink, agency, lock,
                   next_atom_id, next_agent_id, gh, lttng>>

\* under agent->lock: goal->ref_count++, queue_enter into agent->goals through
\* the atom's own chain
add_goal_enter(t) ==
    /\ th[t].pc = "ag_lock"
    /\ simple_lock_free(AgentLock(Idx(th[t].a)))
    /\ atom' = [atom EXCEPT ![Idx(th[t].b)].ref_count = @ + 1]
    /\ lk' = queue_enter(lk, GoalsHead(Idx(th[t].a)), th[t].b)
    /\ gh' = [gh EXCEPT !.goals[Idx(th[t].a)] = Append(@, th[t].b)]
    /\ th' = [th EXCEPT ![t] = [IdleThread EXCEPT !.op = "add_goal", !.a = th[t].a,
                                   !.b = th[t].b, !.ret = "KERN_SUCCESS"]]
    /\ UNCHANGED <<plan, action, space, agent, rule, msg, alink, agency, lock,
                   next_atom_id, next_agent_id, lttng>>

\* learn's update of the confidence: below 1.0f add 0.05f and cap at 1.0f
learn_confidence(c) ==
    IF FLess(c, One) THEN (IF FLess(One, c + 50) THEN One ELSE c + 50) ELSE c

\* learn: the null checks, up to simple_lock(&agent->lock)
learn_call(t, a, experience) ==
    /\ th[t].pc = "idle"
    /\ IsAgent(a) /\ agent[Idx(a)].st = "live"
    /\ IsAtom(experience) /\ atom[Idx(experience)].st = "live"
    /\ atom[Idx(experience)].ref_count < MaxRefs
    /\ Len(gh.knowledge[Idx(a)]) < MaxBeliefs
    /\ th' = [th EXCEPT ![t] = [IdleThread EXCEPT !.pc = "ln_lock", !.op = "learn",
                                   !.a = a, !.b = experience]]
    /\ gh' = [gh EXCEPT !.snap = atom[Idx(experience)]]
    /\ UNCHANGED <<plan, action, lk, atom, space, agent, rule, msg, alink, agency, lock,
                   next_atom_id, next_agent_id, lttng>>

\* learn_store without agent->state = AGENT_STATE_IDLE before the unlock
learn_store_learning(t) ==
    /\ th[t].pc = "ln_lock"
    /\ simple_lock_free(AgentLock(Idx(th[t].a)))
    /\ simple_lock_free(AtomLock(Idx(th[t].b)))
    /\ atom' = [atom EXCEPT ![Idx(th[t].b)].confidence = learn_confidence(@),
                            ![Idx(th[t].b)].count = @ + 1,
                            ![Idx(th[t].b)].ref_count = @ + 1]
    /\ lk' = queue_enter(lk, KnowledgeHead(Idx(th[t].a)), th[t].b)
    /\ agent' = [agent EXCEPT ![Idx(th[t].a)].state = "LEARNING"]
    /\ gh' = [gh EXCEPT !.knowledge[Idx(th[t].a)] = Append(@, th[t].b)]
    /\ th' = [th EXCEPT ![t] = [IdleThread EXCEPT !.op = "learn", !.a = th[t].a,
                                   !.b = th[t].b, !.ret = "KERN_SUCCESS"]]
    /\ UNCHANGED <<plan, action, space, rule, msg, alink, agency, lock,
                   next_atom_id, next_agent_id, lttng>>

\* under agent->lock: state = LEARNING; under experience->lock the confidence
\* and count++; ref_count++, queue_enter into agent->knowledge; state = IDLE
learn_store(t) ==
    /\ th[t].pc = "ln_lock"
    /\ simple_lock_free(AgentLock(Idx(th[t].a)))
    /\ simple_lock_free(AtomLock(Idx(th[t].b)))
    /\ atom' = [atom EXCEPT ![Idx(th[t].b)].confidence = learn_confidence(@),
                            ![Idx(th[t].b)].count = @ + 1,
                            ![Idx(th[t].b)].ref_count = @ + 1]
    /\ lk' = queue_enter(lk, KnowledgeHead(Idx(th[t].a)), th[t].b)
    /\ agent' = [agent EXCEPT ![Idx(th[t].a)].state = "IDLE"]
    /\ gh' = [gh EXCEPT !.knowledge[Idx(th[t].a)] = Append(@, th[t].b)]
    /\ th' = [th EXCEPT ![t] = [IdleThread EXCEPT !.op = "learn", !.a = th[t].a,
                                   !.b = th[t].b, !.ret = "KERN_SUCCESS"]]
    /\ UNCHANGED <<plan, action, space, rule, msg, alink, agency, lock,
                   next_atom_id, next_agent_id, lttng>>

\* reason: the null check, up to simple_lock(&agent->lock)
reason_call(t, a) ==
    /\ th[t].pc = "idle"
    /\ IsAgent(a) /\ agent[Idx(a)].st = "live"
    /\ agent[Idx(a)].reasoning_cycles < MaxActs
    /\ th' = [th EXCEPT ![t] = [IdleThread EXCEPT !.pc = "rs_lock", !.op = "reason",
                                   !.a = a]]
    /\ UNCHANGED <<plan, action, lk, atom, space, agent, rule, msg, alink, agency, lock,
                   next_atom_id, next_agent_id, gh, lttng>>

\* reason_think without simple_unlock(&agent->lock) at the end of phase 1
reason_think_locked(t) ==
    /\ th[t].pc = "rs_lock"
    /\ simple_lock_free(AgentLock(Idx(th[t].a)))
    /\ agent' = [agent EXCEPT ![Idx(th[t].a)].state = "REASONING",
                              ![Idx(th[t].a)].reasoning_cycles = @ + 1]
    /\ th' = [th EXCEPT ![t].pc = IF agency.atomspace THEN "ar_agent" ELSE "rs_idle"]
    /\ lock' = [lock EXCEPT ![AgentLock(Idx(th[t].a))] = t]
    /\ UNCHANGED <<plan, action, lk, atom, space, rule, msg, alink, agency,
                   next_atom_id, next_agent_id, gh, lttng>>

\* phase 1 under agent->lock: state = REASONING, the loop over the goals and,
\* for each, over the beliefs (reading each belief's truth), reasoning_cycles++;
\* then the call of apply_rules, which returns at once without an Atomspace
reason_think(t) ==
    /\ th[t].pc = "rs_lock"
    /\ simple_lock_free(AgentLock(Idx(th[t].a)))
    /\ LET y == Idx(th[t].a)
           wg == queue_iterate(lk, GoalsHead(y))
           wb == queue_iterate(lk, BeliefsHead(y))
           inner == wg.elts # <<>>
           unreadable == inner /\ \E j \in 1 .. Len(wb.elts) :
                                      ~ReadableAtom(wb.elts[j])
       IN  IF ~wg.ends \/ (inner /\ ~wb.ends)
           THEN /\ agent' = [agent EXCEPT ![y].state = "REASONING"]
                /\ th' = [th EXCEPT ![t].pc = "hung"]
                /\ lock' = [lock EXCEPT ![AgentLock(y)] = t]
           ELSE \/ /\ unreadable
                   /\ agent' = [agent EXCEPT ![y].state = "REASONING"]
                   /\ th' = [th EXCEPT ![t].pc = "undefined"]
                   /\ lock' = [lock EXCEPT ![AgentLock(y)] = t]
                \/ /\ agent' = [agent EXCEPT ![y].state = "REASONING",
                                             ![y].reasoning_cycles = @ + 1]
                   /\ th' = [th EXCEPT ![t].pc = IF agency.atomspace
                                                 THEN "ar_agent" ELSE "rs_idle"]
                   /\ UNCHANGED lock
    /\ UNCHANGED <<plan, action, lk, atom, space, rule, msg, alink, agency,
                   next_atom_id, next_agent_id, gh, lttng>>

\* after apply_rules, under agent->lock: state = IDLE
reason_idle(t) ==
    /\ th[t].pc = "rs_idle"
    /\ simple_lock_free(AgentLock(Idx(th[t].a)))
    /\ agent' = [agent EXCEPT ![Idx(th[t].a)].state = "IDLE"]
    /\ th' = [th EXCEPT ![t] = [IdleThread EXCEPT !.op = "reason", !.a = th[t].a,
                                   !.ret = "KERN_SUCCESS"]]
    /\ UNCHANGED <<plan, action, lk, atom, space, rule, msg, alink, agency, lock,
                   next_atom_id, next_agent_id, gh, lttng>>

\* pending_messages: the null check, up to simple_lock(&agent->lock)
pending_messages_call(t, a) ==
    /\ th[t].pc = "idle"
    /\ IsAgent(a) /\ agent[Idx(a)].st = "live"
    /\ th' = [th EXCEPT ![t] = [IdleThread EXCEPT !.pc = "pm_lock",
                                   !.op = "pending_messages", !.a = a]]
    /\ UNCHANGED <<plan, action, lk, atom, space, agent, rule, msg, alink, agency, lock,
                   next_atom_id, next_agent_id, gh, lttng>>

\* a read of the count that also puts the agent back to IDLE
pending_messages_read_idle(t) ==
    /\ th[t].pc = "pm_lock"
    /\ simple_lock_free(AgentLock(Idx(th[t].a)))
    /\ agent' = [agent EXCEPT ![Idx(th[t].a)].state = "IDLE"]
    /\ th' = [th EXCEPT ![t] = [IdleThread EXCEPT !.op = "pending_messages",
                                   !.a = th[t].a,
                                   !.n = agent[Idx(th[t].a)].message_count]]
    /\ UNCHANGED <<plan, action, lk, atom, space, rule, msg, alink, agency, lock,
                   next_atom_id, next_agent_id, gh, lttng>>

\* under agent->lock: count = agent->message_count
pending_messages_read(t) ==
    /\ th[t].pc = "pm_lock"
    /\ simple_lock_free(AgentLock(Idx(th[t].a)))
    /\ th' = [th EXCEPT ![t] = [IdleThread EXCEPT !.op = "pending_messages",
                                   !.a = th[t].a,
                                   !.n = agent[Idx(th[t].a)].message_count]]
    /\ UNCHANGED <<plan, action, lk, atom, space, agent, rule, msg, alink, agency, lock,
                   next_atom_id, next_agent_id, gh, lttng>>

\* get_state: the null checks, up to simple_lock(&agent->lock)
get_state_call(t, a) ==
    /\ th[t].pc = "idle"
    /\ IsAgent(a) /\ agent[Idx(a)].st = "live"
    /\ th' = [th EXCEPT ![t] = [IdleThread EXCEPT !.pc = "gs_lock",
                                   !.op = "get_state", !.a = a]]
    /\ UNCHANGED <<plan, action, lk, atom, space, agent, rule, msg, alink, agency, lock,
                   next_atom_id, next_agent_id, gh, lttng>>

\* under agent->lock: *state = agent->state
get_state_read(t) ==
    /\ th[t].pc = "gs_lock"
    /\ simple_lock_free(AgentLock(Idx(th[t].a)))
    /\ th' = [th EXCEPT ![t] = [IdleThread EXCEPT !.op = "get_state", !.a = th[t].a,
                                   !.ret = "KERN_SUCCESS",
                                   !.nm = agent[Idx(th[t].a)].state]]
    /\ UNCHANGED <<plan, action, lk, atom, space, agent, rule, msg, alink, agency, lock,
                   next_atom_id, next_agent_id, gh, lttng>>

(***************************************************************************)
(* kern/lttng.c: mach_trace_enable, mach_trace_event.                      *)
(***************************************************************************)
\* under the buffer lock: enabling when off clears write_pos, read_pos and
\* dropped_events and sets both flags; disabling when on clears both flags;
\* anything else changes nothing
mach_trace_enable(t, enable) ==
    /\ th[t].pc = "idle"
    /\ simple_lock_free(TraceLock)
    /\ lttng' =
         IF enable /\ ~lttng.mach_tracing_enabled
         THEN [lttng EXCEPT !.mach_trace_buf_impl.write_pos = 0,
                            !.mach_trace_buf_impl.read_pos = 0,
                            !.mach_trace_buf_impl.dropped_events = 0,
                            !.mach_trace_buf_impl.enabled = TRUE,
                            !.mach_tracing_enabled = TRUE]
         ELSE IF ~enable /\ lttng.mach_tracing_enabled
              THEN [lttng EXCEPT !.mach_tracing_enabled = FALSE,
                                 !.mach_trace_buf_impl.enabled = FALSE]
              ELSE lttng
    /\ th' = [th EXCEPT ![t] = [IdleThread EXCEPT !.op = "mach_trace_enable"]]
    /\ UNCHANGED <<plan, action, lk, atom, space, agent, rule, msg, alink, agency, lock,
                   next_atom_id, next_agent_id, gh>>

\* the quick check without the lock: return when either flag is off; else
\* the timestamp (++counter) and total_events_generated++, up to the lock
mach_trace_event_call(t, event_id) ==
    /\ th[t].pc = "idle"
    /\ IF ~lttng.mach_tracing_enabled \/ ~lttng.mach_trace_buf_impl.enabled
       THEN /\ th' = [th EXCEPT ![t] = [IdleThread EXCEPT !.op = "mach_trace_event",
                                           !.n = event_id]]
            /\ UNCHANGED lttng
       ELSE /\ lttng.counter < MaxEvents
            /\ lttng' = [lttng EXCEPT !.counter = @ + 1,
                                      !.total_events_generated = @ + 1]
            /\ th' = [th EXCEPT ![t] = [IdleThread EXCEPT !.pc = "te_lock",
                                           !.op = "mach_trace_event",
                                           !.n = event_id,
                                           !.k = lttng.counter + 1]]
    /\ UNCHANGED <<plan, action, lk, atom, space, agent, rule, msg, alink, agency, lock,
                   next_atom_id, next_agent_id, gh>>

\* mach_trace_event_store without the test next_pos == read_pos: the event
\* is always stored
mach_trace_event_overwrite(t) ==
    /\ th[t].pc = "te_lock"
    /\ simple_lock_free(TraceLock)
    /\ LET buf == lttng.mach_trace_buf_impl
           pos == buf.write_pos
           next_pos == (pos + 1) % MACH_TRACE_BUF_SIZE
       IN  lttng' =
             IF ~buf.enabled THEN lttng
             ELSE [lttng EXCEPT
                     !.mach_trace_buf_impl.events[pos] =
                         [timestamp |-> th[t].k, event_id |-> th[t].n],
                     !.mach_trace_buf_impl.write_pos = next_pos]
    /\ th' = [th EXCEPT ![t].pc = "idle"]
    /\ UNCHANGED <<plan, action, lk, atom, space, agent, rule, msg, alink, agency, lock,
                   next_atom_id, next_agent_id, gh>>

\* under the buffer lock: return when the buffer is not enabled; with
\* next_pos == read_pos drop the event (dropped_events++,
\* total_events_dropped++); else fill events[pos] and write_pos = next_pos
mach_trace_event_store(t) ==
    /\ th[t].pc = "te_lock"
    /\ simple_lock_free(TraceLock)
    /\ LET buf == lttng.mach_trace_buf_impl
           pos == buf.write_pos
           next_pos == (pos + 1) % MACH_TRACE_BUF_SIZE
       IN  lttng' =
             IF ~buf.enabled THEN lttng
             ELSE IF next_pos = buf.read_pos
                  THEN [lttng EXCEPT !.mach_trace_buf_impl.dropped_events = @ + 1,
                                     !.total_events_dropped = @ + 1]
                  ELSE [lttng EXCEPT
                          !.mach_trace_buf_impl.events[pos] =
                              [timestamp |-> th[t].k, event_id |-> th[t].n],
                          !.mach_trace_buf_impl.write_pos = next_pos]
    /\ th' = [th EXCEPT ![t].pc = "idle"]
    /\ UNCHANGED <<plan, action, lk, atom, space, agent, rule, msg, alink, agency, lock,
                   next_atom_id, next_agent_id, gh>>

\* mach_trace_print_stats: the number of buffered events
buffered_events ==
    LET buf == lttng.mach_trace_buf_impl
    IN  IF buf.write_pos >= buf.read_pos
        THEN buf.write_pos - buf.read_pos
        ELSE MACH_TRACE_BUF_SIZE - (buf.read_pos - buf.write_pos)

(***************************************************************************)
(* Search: cognitive_atom_lookup, cognitive_atomspace_find_by_type.        *)
(***************************************************************************)
\* the places of the walk elts where a search loop leaves its walk: the
\* element is one of the matching atoms, or it is no atom alive and the
\* comparison reads garbage
Stops(elts, matching) ==
    {j \in 1 .. Len(elts) : ~ReadableAtom(elts[j]) \/ Idx(elts[j]) \in matching}

\* the loop of lookup and find_by_type under space->lock: at the first match
\* ref_count++ and return the atom; at the end of the queue return null
search(t, op, matching) ==
    /\ simple_lock_free(SpaceLock)
    /\ LET w == queue_iterate(lk, AtomsHead)
           stops == Stops(w.elts, matching)
       IN  IF stops = {}
           THEN IF w.ends
                THEN /\ th' = [th EXCEPT ![t] =
                                 [IdleThread EXCEPT !.op = op, !.ty = th[t].ty,
                                     !.nm = th[t].nm, !.out = NULL]]
                     /\ UNCHANGED <<atom, lock>>
                ELSE /\ th' = [th EXCEPT ![t].pc = "hung"]
                     /\ lock' = [lock EXCEPT ![SpaceLock] = t]
                     /\ UNCHANGED atom
           ELSE LET e == w.elts[Lowest(stops)]
                IN  IF ReadableAtom(e)
                    THEN /\ atom' = [atom EXCEPT ![Idx(e)].ref_count = @ + 1]
                         /\ th' = [th EXCEPT ![t] =
                                     [IdleThread EXCEPT !.op = op, !.ty = th[t].ty,
                                         !.nm = th[t].nm, !.out = e]]
                         /\ UNCHANGED lock
                    ELSE /\ th' = [th EXCEPT ![t].pc = "undefined"]
                         /\ lock' = [lock EXCEPT ![SpaceLock] = t]
                         /\ UNCHANGED atom
    /\ UNCHANGED <<plan, action, lk, space, agent, rule, msg, alink, agency,
                   next_atom_id, next_agent_id, gh, lttng>>

\* lookup: the null checks, up to simple_lock(&space->lock)
atom_lookup_call(t, name) ==
    /\ th[t].pc = "idle"
    /\ space.exists
    /\ \A i \in AtomIds : atom[i].ref_count < MaxRefs
    /\ th' = [th EXCEPT ![t] = [IdleThread EXCEPT !.pc = "lu_lock",
                                   !.op = "atom_lookup", !.nm = name]]
    /\ gh' = [gh EXCEPT !.refs0 = [i \in AtomIds |-> atom[i].ref_count]]
    /\ UNCHANGED <<plan, action, lk, atom, space, agent, rule, msg, alink, agency, lock,
                   next_atom_id, next_agent_id, lttng>>

\* lookup's loop: strcmp(atom->name, name) == 0
atom_lookup_walk(t) ==
    /\ th[t].pc = "lu_lock"
    /\ search(t, "atom_lookup", {i \in AtomIds : atom[i].name = th[t].nm})

\* find_by_type: the null check, up to simple_lock(&space->lock)
find_by_type_call(t, type) ==
    /\ th[t].pc = "idle"
    /\ space.exists
    /\ \A i \in AtomIds : atom[i].ref_count < MaxRefs
    /\ th' = [th EXCEPT ![t] = [IdleThread EXCEPT !.pc = "ft_lock",
                                   !.op = "find_by_type", !.ty = type]]
    /\ gh' = [gh EXCEPT !.refs0 = [i \in AtomIds |-> atom[i].ref_count]]
    /\ UNCHANGED <<plan, action, lk, atom, space, agent, rule, msg, alink, agency, lock,
                   next_atom_id, next_agent_id, lttng>>

\* find_by_type's loop: atom->type == type
find_by_type_walk(t) ==
    /\ th[t].pc = "ft_lock"
    /\ search(t, "find_by_type", {i \in AtomIds : atom[i].type = th[t].ty})

\* query: the null checks and max_results == 0, up to simple_lock(&space->lock)
query_call(t, type, max_results) ==
    /\ th[t].pc = "idle"
    /\ space.exists
    /\ \A i \in AtomIds : atom[i].ref_count < MaxRefs
    /\ th' = [th EXCEPT ![t] =
                IF max_results = 0
                THEN [IdleThread EXCEPT !.op = "query", !.ty = type, !.k = 0]
                ELSE [IdleThread EXCEPT !.pc = "qy_lock", !.op = "query",
                         !.ty = type, !.k = max_results]]
    /\ gh' = [gh EXCEPT !.refs0 = [i \in AtomIds |-> atom[i].ref_count]]
    /\ UNCHANGED <<plan, action, lk, atom, space, agent, rule, msg, alink, agency, lock,
                   next_atom_id, next_agent_id, lttng>>

\* the first max elements of the sequence q
FirstOf(q, max) == SubSeq(q, 1, IF Len(q) < max THEN Len(q) ELSE max)

\* query's loop under space->lock: every element of the queue is compared,
\* and while count < max_results a match is stored, ref_count++, count++
query_walk(t) ==
    /\ th[t].pc = "qy_lock"
    /\ simple_lock_free(SpaceLock)
    /\ LET w == queue_iterate(lk, AtomsHead)
           unreadable == \E j \in 1 .. Len(w.elts) : ~ReadableAtom(w.elts[j])
           matches == SelectSeq(w.elts,
                          LAMBDA e : ReadableAtom(e) /\ atom[Idx(e)].type = th[t].ty)
           results == FirstOf(matches, th[t].k)
       IN  IF ~w.ends
           THEN /\ th' = [th EXCEPT ![t].pc = "hung"]
                /\ lock' = [lock EXCEPT ![SpaceLock] = t]
                /\ UNCHANGED atom
           ELSE IF unreadable
                THEN /\ th' = [th EXCEPT ![t].pc = "undefined"]
                     /\ lock' = [lock EXCEPT ![SpaceLock] = t]
                     /\ UNCHANGED atom
                ELSE /\ atom' = [i \in AtomIds |->
                                   IF \E j \in 1 .. Len(results) : results[j] = AtomN(i)
                                   THEN [atom[i] EXCEPT !.ref_count = @ + 1]
                                   ELSE atom[i]]
                     /\ th' = [th EXCEPT ![t] =
                                 [IdleThread EXCEPT !.op = "query", !.ty = th[t].ty,
                                     !.k = th[t].k, !.n = Len(results),
                                     !.res = results]]
                     /\ UNCHANGED lock
    /\ UNCHANGED <<plan, action, lk, space, agent, rule, msg, alink, agency,
                   next_atom_id, next_agent_id, gh, lttng>>

(***************************************************************************)
(* Teardown: cognitive_atom_destroy, cognitive_agent_destroy,              *)
(* cognitive_atomspace_destroy, cognitive_agency_shutdown.                 *)
(***************************************************************************)
\* atom_destroy on the atom table: --ref_count, and the atom is freed when
\* the count reaches 0; its chain stays wherever it is entered
atom_destroy(tab, i) ==
    IF tab[i].ref_count - 1 > 0
    THEN [tab EXCEPT ![i].ref_count = @ - 1]
    ELSE [tab EXCEPT ![i].ref_count = 0, ![i].st = "freed"]

\* the loop of the destroy functions over a queue of atoms:
\*   queue_iterate(head, atom, ...) { next_atom = queue_next(&atom->link);
\*                                    cognitive_atom_destroy(atom);
\*                                    atom = next_atom; }
\* where the step of queue_iterate follows the chain of next_atom once more.
\* ok is FALSE once the loop touches an element that is no atom alive.
RECURSIVE DestroyLoop(_, _, _)
DestroyLoop(tab, head, cur) ==
    IF cur = head THEN [tab |-> tab, ok |-> TRUE]
    ELSE IF ~(IsAtom(cur) /\ tab[Idx(cur)].st = "live")
         THEN [tab |-> tab, ok |-> FALSE]
         ELSE LET next_atom == lk[cur].next
                  tab1 == atom_destroy(tab, Idx(cur))
              IN  IF IsAtom(next_atom) /\ tab1[Idx(next_atom)].st # "live"
                  THEN [tab |-> tab1, ok |-> FALSE]
                  ELSE DestroyLoop(tab1, head, lk[next_atom].next)

\* atom_destroy called by a holder of a reference: the null check, up to
\* simple_lock(&atom->lock)
atom_destroy_call(t, a) ==
    /\ th[t].pc = "idle"
    /\ IsAtom(a) /\ atom[Idx(a)].st = "live"
    /\ th' = [th EXCEPT ![t] = [IdleThread EXCEPT !.pc = "dt_lock",
                                   !.op = "atom_destroy", !.a = a]]
    /\ UNCHANGED <<plan, action, lk, atom, space, agent, rule, msg, alink, agency, lock,
                   next_atom_id, next_agent_id, gh, lttng>>

\* under atom->lock: --ref_count and, at 0, kfree of the atom; the Atomspace
\* and its atom_count are not touched
atom_destroy_drop(t) ==
    /\ th[t].pc = "dt_lock"
    /\ simple_lock_free(AtomLock(Idx(th[t].a)))
    /\ atom' = atom_destroy(atom, Idx(th[t].a))
    /\ th' = [th EXCEPT ![t] = [IdleThread EXCEPT !.op = "atom_destroy",
                                   !.a = th[t].a, !.ret = "done"]]
    /\ UNCHANGED <<plan, action, lk, space, agent, rule, msg, alink, agency, lock,
                   next_atom_id, next_agent_id, gh, lttng>>

AtomLocksFree == \A i \in AtomIds : simple_lock_free(AtomLock(i))

\* agent_destroy: the call, up to simple_lock(&agent->lock)
agent_destroy_call(t, a) ==
    /\ th[t].pc = "idle"
    /\ IsAgent(a) /\ agent[Idx(a)].st = "live"
    /\ th' = [th EXCEPT ![t] = [IdleThread EXCEPT !.pc = "ad_lock",
                                   !.op = "agent_destroy", !.a = a]]
    /\ UNCHANGED <<plan, action, lk, atom, space, agent, rule, msg, alink, agency, lock,
                   next_atom_id, next_agent_id, gh, lttng>>

\* under agent->lock: the loops over goals, beliefs and knowledge; then the
\* unlock, up to simple_lock(&global_cognitive_agency.lock)
agent_destroy_release(t) ==
    /\ th[t].pc = "ad_lock"
    /\ simple_lock_free(AgentLock(Idx(th[t].a))) /\ AtomLocksFree
    /\ LET y == Idx(th[t].a)
           g == DestroyLoop(atom, GoalsHead(y), lk[GoalsHead(y)].next)
           b == IF g.ok
                THEN DestroyLoop(g.tab, BeliefsHead(y), lk[BeliefsHead(y)].next)
                ELSE g
           k == IF b.ok
                THEN DestroyLoop(b.tab, KnowledgeHead(y), lk[KnowledgeHead(y)].next)
                ELSE b
       IN  /\ atom' = k.tab
           /\ IF k.ok
              THEN /\ th' = [th EXCEPT ![t].pc = "ad_agency"]
                   /\ UNCHANGED lock
              ELSE /\ th' = [th EXCEPT ![t].pc = "undefined"]
                   /\ lock' = [lock EXCEPT ![AgentLock(y)] = t]
    /\ UNCHANGED <<plan, action, lk, space, agent, rule, msg, alink, agency,
                   next_atom_id, next_agent_id, gh, lttng>>

\* under the agency lock: queue_remove from agents, agent_count--; kfree.
\* Back in shutdown the loop goes on from the chain of next_agent.
agent_destroy_remove(t) ==
    /\ th[t].pc = "ad_agency"
    /\ simple_lock_free(AgencyLock)
    /\ LET L1 == queue_remove(lk, AgentsHead, th[t].a)
       IN  /\ lk' = L1
           /\ agency' = [agency EXCEPT !.agent_count = @ - 1]
           /\ agent' = [agent EXCEPT ![Idx(th[t].a)].st = "freed"]
           /\ IF th[t].op = "shutdown"
              THEN th' = [th EXCEPT ![t].pc = "sd_agents",
                                    ![t].cur = L1[th[t].nxt].next]
              ELSE th' = [th EXCEPT ![t] = [IdleThread EXCEPT !.op = "agent_destroy"]]
    /\ UNCHANGED <<plan, action, atom, space, rule, msg, alink, lock,
                   next_atom_id, next_agent_id, gh, lttng>>

\* shutdown: the initialized check, up to simple_lock of the agency lock
shutdown_call(t) ==
    /\ th[t].pc = "idle"
    /\ IF ~agency.initialized
       THEN th' = [th EXCEPT ![t] = [IdleThread EXCEPT !.op = "shutdown"]]
       ELSE th' = [th EXCEPT ![t] = [IdleThread EXCEPT !.pc = "sd_lock",
                                        !.op = "shutdown"]]
    /\ UNCHANGED <<plan, action, lk, atom, space, agent, rule, msg, alink, agency, lock,
                   next_atom_id, next_agent_id, gh, lttng>>

\* simple_lock(&global_cognitive_agency.lock); the loop starts at the first
\* agent
shutdown_lock(t) ==
    /\ th[t].pc = "sd_lock"
    /\ simple_lock_free(AgencyLock)
    /\ lock' = [lock EXCEPT ![AgencyLock] = t]
    /\ th' = [th EXCEPT ![t].pc = "sd_agents", ![t].cur = lk[AgentsHead].next]
    /\ UNCHANGED <<plan, action, lk, atom, space, agent, rule, msg, alink, agency,
                   next_atom_id, next_agent_id, gh, lttng>>

\* the loop over the agents, with the agency lock held: at the end go on to
\* the Atomspace, else save next_agent and call cognitive_agent_destroy
shutdown_agents(t) ==
    /\ th[t].pc = "sd_agents"
    /\ LET cur == th[t].cur
       IN  IF cur = AgentsHead
           THEN th' = [th EXCEPT ![t].pc = "sd_space"]
           ELSE IF ~(IsAgent(cur) /\ agent[Idx(cur)].st = "live")
                THEN th' = [th EXCEPT ![t].pc = "undefined"]
                ELSE th' = [th EXCEPT ![t].pc = "ad_lock", ![t].a = cur,
                                      ![t].nxt = lk[cur].next]
    /\ UNCHANGED <<plan, action, lk, atom, space, agent, rule, msg, alink, agency, lock,
                   next_atom_id, next_agent_id, gh, lttng>>

\* cognitive_atomspace_destroy under the space lock, atomspace = NULL,
\* initialized = FALSE, and the unlock of the agency lock
shutdown_space(t) ==
    /\ th[t].pc = "sd_space"
    /\ IF agency.atomspace
       THEN /\ simple_lock_free(SpaceLock) /\ AtomLocksFree
            /\ LET r == DestroyLoop(atom, AtomsHead, lk[AtomsHead].next)
               IN  /\ atom' = r.tab
                   /\ IF r.ok
                      THEN /\ space' = [space EXCEPT !.exists = FALSE]
                           /\ agency' = [agency EXCEPT !.atomspace = FALSE,
                                                       !.initialized = FALSE]
                           /\ lock' = [lock EXCEPT ![AgencyLock] = NoThread]
                           /\ th' = [th EXCEPT ![t] =
                                       [IdleThread EXCEPT !.op = "shutdown",
                                                          !.ret = "done"]]
                      ELSE /\ lock' = [lock EXCEPT ![SpaceLock] = t]
                           /\ th' = [th EXCEPT ![t].pc = "undefined"]
                           /\ UNCHANGED <<space, agency>>
       ELSE /\ agency' = [agency EXCEPT !.initialized = FALSE]
            /\ lock' = [lock EXCEPT ![AgencyLock] = NoThread]
            /\ th' = [th EXCEPT ![t] = [IdleThread EXCEPT !.op = "shutdown",
                                           !.ret = "done"]]
            /\ UNCHANGED <<atom, space>>
    /\ UNCHANGED <<plan, action, lk, agent, rule, msg, alink, next_atom_id,
                   next_agent_id, gh, lttng>>

\* atomspace_destroy: the null check, up to simple_lock(&space->lock)
atomspace_destroy_call(t) ==
    /\ th[t].pc = "idle"
    /\ space.exists
    /\ th' = [th EXCEPT ![t] = [IdleThread EXCEPT !.pc = "sp_lock",
                                   !.op = "atomspace_destroy"]]
    /\ gh' = [gh EXCEPT !.members =
                 SelectSeq([i \in AtomIds |-> AtomN(i)],
                           LAMBDA n : atom[Idx(n)].st = "live")]
    /\ UNCHANGED <<plan, action, lk, atom, space, agent, rule, msg, alink, agency, lock,
                   next_atom_id, next_agent_id, lttng>>

\* under space->lock: the loop over space->atoms; then the unlock and the
\* kfree of the Atomspace
atomspace_destroy_loop(t) ==
    /\ th[t].pc = "sp_lock"
    /\ simple_lock_free(SpaceLock) /\ AtomLocksFree
    /\ LET r == DestroyLoop(atom, AtomsHead, lk[AtomsHead].next)
       IN  /\ atom' = r.tab
           /\ IF r.ok
              THEN /\ space' = [space EXCEPT !.exists = FALSE]
                   /\ th' = [th EXCEPT ![t] =
                               [IdleThread EXCEPT !.op = "atomspace_destroy",
                                                  !.ret = "done"]]
                   /\ UNCHANGED lock
              ELSE /\ lock' = [lock EXCEPT ![SpaceLock] = t]
                   /\ th' = [th EXCEPT ![t].pc = "undefined"]
                   /\ UNCHANGED space
    /\ UNCHANGED <<plan, action, lk, agent, rule, msg, alink, agency,
                   next_atom_id, next_agent_id, gh, lttng>>

(***************************************************************************)
(* States after the first calls of a boot: k atoms allocated by            *)
(* cognitive_atom_create, in order.                                        *)
(***************************************************************************)
RECURSIVE LkAfterCreates(_, _)
LkAfterCreates(L, k) ==
    IF k = 0 THEN L ELSE EnterNewAtom(LkAfterCreates(L, k - 1), k)

RECURSIVE LkAfterAgents(_, _)
LkAfterAgents(L, g) ==
    IF g = 0 THEN L ELSE EnterNewAgent(LkAfterAgents(L, g - 1), g)

\* cognitive_agency_init, then k calls cognitive_atom_create(space, type, name)
\* and g calls cognitive_agent_create
Booted(k, g, type, name) ==
    /\ lk = LkAfterAgents(LkAfterCreates(
               [n \in Nodes |->
                  IF n \in {AtomsHead, AgentsHead, RulesHead}
                  THEN [next |-> n, prev |-> n]
                  ELSE [next |-> NULL, prev |-> NULL]], k), g)
    /\ atom = [i \in AtomIds |-> IF i <= k THEN NewAtom(type, name, i) ELSE InitAtom]
    /\ space = [exists |-> TRUE, atom_count |-> k, max_atoms |-> MaxAtoms,
                other |-> NoSpace]
    /\ agent = [i \in AgentIds |-> IF i <= g THEN NewAgent(i) ELSE InitAgent]
    /\ rule = [i \in RuleIds |-> InitRule]
    /\ msg = [i \in MsgIds |-> InitMsg]
    /\ alink = [i \in LinkIds |-> InitLink]
    /\ agency = [agent_count |-> g, rule_count |-> 0, initialized |-> TRUE,
                 atomspace |-> TRUE]
    /\ lock = [l \in Locks |-> NoThread]
    /\ th = [t \in Threads |-> IdleThread]
    /\ next_atom_id = k + 1
    /\ next_agent_id = g + 1
    /\ gh = InitGhost
    /\ plan = [i \in PlanIds |-> InitPlan]
    /\ action = [i \in ActionIds |-> InitAction]
    /\ lttng = mach_trace_init

(***************************************************************************)
(* Truth values: one caller sets the truth of two atoms, with values in    *)
(* and out of range.                                                       *)
(***************************************************************************)
TruthInputs == {0 - 100, 0, Half, One, One + 100}

InitTruth == Booted(2, 0, "CONCEPT", "cpu_load")

NextTruth ==
    \/ \E a \in AtomNodes, s \in TruthInputs, c \in TruthInputs :
           set_truth_call(1, a, s, c)
    \/ set_truth_store(1)

SpecTruth == InitTruth /\ [][NextTruth]_vars

(***************************************************************************)
(* Links: one caller creates, removes and counts links among two atoms.    *)
(***************************************************************************)
InitLinks == Booted(2, 0, "CONCEPT", "cpu_load")

NextLinks ==
    \/ \E from \in AtomNodes, to \in AtomNodes, s \in {Half, One + 100} :
           create_link_call(1, from, to, 0, s)
    \/ create_link_out(1)
    \/ create_link_in(1)
    \/ \E from \in AtomNodes, to \in AtomNodes : remove_link_call(1, from, to)
    \/ remove_link_out(1)
    \/ remove_link_in(1)
    \/ \E a \in AtomNodes : count_links_call(1, a)
    \/ count_links_count(1)

SpecLinks == InitLinks /\ [][NextLinks]_vars

(***************************************************************************)
(* Messaging: two threads send atoms between two agents and receive them.  *)
(***************************************************************************)
InitMsgs == Booted(2, 2, "CONCEPT", "cpu_load")

NextMsgs ==
    \E t \in Threads :
        \/ \E from \in {AgentN(i) : i \in AgentIds},
              to \in {AgentN(i) : i \in AgentIds}, m \in AtomNodes :
               send_message_call(t, from, to, m)
        \/ send_message_from(t)
        \/ send_message_to(t)
        \/ \E a \in {AgentN(i) : i \in AgentIds} : receive_message_call(t, a)
        \/ receive_message_dequeue(t)

SpecMsgs == InitMsgs /\ [][NextMsgs]_vars

(***************************************************************************)
(* The rule engine: one caller allocates atoms, sets truth values, adds    *)
(* beliefs to an agent, registers rules and applies them.                  *)
(***************************************************************************)
InitRules == Booted(0, 1, "CONCEPT", "cpu_load")

NextRules ==
    \/ atom_create_call(1, "CONCEPT", "cpu_load")
    \/ atom_create_lock(1)
    \/ atom_create_check(1)
    \/ atom_create_enter(1)
    \/ /\ atom[1].count = 0
       /\ set_truth_call(1, AtomN(1), 900, 800)
    \/ set_truth_store(1)
    \/ \E a \in AtomNodes : add_belief_call(1, AgentN(1), a)
    \/ add_belief_enter(1)
    \/ \E concl \in {"CONCEPT", "ACTION"}, thr \in {700, One + 100} :
           rule_create(1, "CONCEPT", concl, thr)
    \/ \E r \in RuleIds : agency_add_rule(1, r)
    \/ apply_rules_call(1, AgentN(1))
    \/ apply_rules_lock_agent(1)
    \/ apply_rules_lock_agency(1)
    \/ apply_rules_rule(1)
    \/ apply_rules_belief(1)

SpecRules == InitRules /\ [][NextRules]_vars

(***************************************************************************)
(* Teardown: one caller allocates atoms, creates agents, gives them        *)
(* beliefs, destroys agents and shuts the agency down.                     *)
(***************************************************************************)
NextShutdown ==
    \/ atom_create_call(1, "CONCEPT", "cpu_load")
    \/ atom_create_lock(1)
    \/ atom_create_check(1)
    \/ atom_create_enter(1)
    \/ /\ agency.initialized
       /\ agent_create_call(1)
    \/ agent_create_register(1)
    \/ \E a \in AtomNodes, y \in AgentIds : add_belief_call(1, AgentN(y), a)
    \/ add_belief_enter(1)
    \/ \E y \in AgentIds : agent_destroy_call(1, AgentN(y))
    \/ agent_destroy_release(1)
    \/ agent_destroy_remove(1)
    \/ shutdown_call(1)
    \/ shutdown_lock(1)
    \/ shutdown_agents(1)
    \/ shutdown_space(1)

SpecShutdown == AgencyInit /\ [][NextShutdown]_vars

(***************************************************************************)
(* Plans: one caller sets the first atom's strength, adds beliefs, makes   *)
(* plans for the goal (the second atom) and acts.                          *)
(***************************************************************************)
InitPlans == Booted(2, 1, "CONCEPT", "cpu_load")

NextPlans ==
    \/ /\ atom[1].count = 0
       /\ set_truth_call(1, AtomN(1), 600, Half)
    \/ set_truth_store(1)
    \/ \E a \in AtomNodes : add_belief_call(1, AgentN(1), a)
    \/ add_belief_enter(1)
    \/ create_plan_call(1, AgentN(1), AtomN(2))
    \/ create_plan_build(1)
    \/ execute_plan_call(1, AgentN(1))
    \/ execute_plan_run(1)
    \/ act_call(1, AgentN(1))
    \/ act_default(1)

SpecPlans == InitPlans /\ [][NextPlans]_vars

(***************************************************************************)
(* Building plans: one caller allocates atoms, sets the first one's        *)
(* strength, adds beliefs and makes plans for any atom as the goal.        *)
(***************************************************************************)
NextPlanBuild ==
    \/ atom_create_call(1, "CONCEPT", "goal")
    \/ atom_create_lock(1)
    \/ atom_create_check(1)
    \/ atom_create_enter(1)
    \/ /\ atom[1].count = 0
       /\ set_truth_call(1, AtomN(1), 600, Half)
    \/ set_truth_store(1)
    \/ \E a \in AtomNodes : add_belief_call(1, AgentN(1), a)
    \/ add_belief_enter(1)
    \/ \E g \in AtomNodes : create_plan_call(1, AgentN(1), g)
    \/ create_plan_build(1)

SpecPlanBuild == Booted(1, 1, "CONCEPT", "cpu_load") /\ [][NextPlanBuild]_vars

(***************************************************************************)
(* Agent states: one caller uses every call of the agent interface on the  *)
(* first agent, sending to the second; the one atom is the message, goal,  *)
(* belief and experience, each collection gets one entry, and no rule is   *)
(* registered.                                                             *)
(***************************************************************************)
InitStates == Booted(1, 2, "CONCEPT", "cpu_load")

NextStates ==
    \/ send_message_call(1, AgentN(1), AgentN(2), AtomN(1))
    \/ send_message_from(1)
    \/ send_message_to(1)
    \/ receive_message_call(1, AgentN(1))
    \/ receive_message_dequeue(1)
    \/ pending_messages_call(1, AgentN(1))
    \/ pending_messages_read(1)
    \/ get_state_call(1, AgentN(1))
    \/ get_state_read(1)
    \/ /\ gh.goals[1] = <<>>
       /\ add_goal_call(1, AgentN(1), AtomN(1))
    \/ add_goal_enter(1)
    \/ /\ gh.beliefs[1] = <<>>
       /\ add_belief_call(1, AgentN(1), AtomN(1))
    \/ add_belief_enter(1)
    \/ /\ plan[1].st = "none"
       /\ create_plan_call(1, AgentN(1), AtomN(1))
    \/ create_plan_build(1)
    \/ /\ agent[1].actions_executed = 0
       /\ execute_plan_call(1, AgentN(1))
    \/ execute_plan_run(1)
    \/ /\ agent[1].actions_executed = 0
       /\ act_call(1, AgentN(1))
    \/ act_default(1)
    \/ /\ gh.knowledge[1] = <<>>
       /\ learn_call(1, AgentN(1), AtomN(1))
    \/ learn_store(1)
    \/ /\ agent[1].reasoning_cycles = 0
       /\ reason_call(1, AgentN(1))
    \/ reason_think(1)
    \/ reason_idle(1)
    \/ apply_rules_call(1, AgentN(1))
    \/ apply_rules_lock_agent(1)
    \/ apply_rules_lock_agency(1)
    \/ apply_rules_rule(1)

SpecStates == InitStates /\ [][NextStates]_vars

(***************************************************************************)
(* Collections: one caller adds the two atoms as goals and beliefs of the  *)
(* two agents and lets the agents learn them.                              *)
(***************************************************************************)
InitCollections == Booted(2, 2, "CONCEPT", "cpu_load")

NextCollections ==
    \/ \E a \in {AgentN(i) : i \in AgentIds}, x \in AtomNodes :
           add_goal_call(1, a, x)
    \/ add_goal_enter(1)
    \/ \E a \in {AgentN(i) : i \in AgentIds}, x \in AtomNodes :
           add_belief_call(1, a, x)
    \/ add_belief_enter(1)
    \/ \E a \in {AgentN(i) : i \in AgentIds}, x \in AtomNodes :
           learn_call(1, a, x)
    \/ learn_store(1)

SpecCollections == InitCollections /\ [][NextCollections]_vars

(***************************************************************************)
(* The Atomspace: one caller allocates atoms of two names and types, looks *)
(* them up by name and by type, queries them by type, adds them as beliefs *)
(* of the agent and destroys the Atomspace.                                *)
(***************************************************************************)
InitSpace == Booted(0, 1, "CONCEPT", "cpu_load")

NextSpace ==
    \/ atom_create_call(1, "CONCEPT", "cpu_load")
    \/ atom_create_call(1, "ACTION", "throttle")
    \/ atom_create_lock(1)
    \/ atom_create_check(1)
    \/ atom_create_enter(1)
    \/ \E name \in {"cpu_load", "throttle", "mem_free"} : atom_lookup_call(1, name)
    \/ atom_lookup_walk(1)
    \/ \E type \in {"CONCEPT", "ACTION", "GOAL"} : find_by_type_call(1, type)
    \/ find_by_type_walk(1)
    \/ \E type \in {"CONCEPT", "ACTION"}, max_results \in 0 .. 2 :
           query_call(1, type, max_results)
    \/ query_walk(1)
    \/ \E a \in AtomNodes : add_belief_call(1, AgentN(1), a)
    \/ add_belief_enter(1)
    \/ atomspace_destroy_call(1)
    \/ atomspace_destroy_loop(1)

SpecSpace == InitSpace /\ [][NextSpace]_vars

(***************************************************************************)
(* Names: one caller allocates atoms with a name, with the empty string    *)
(* and without a name.                                                     *)
(***************************************************************************)
NextNames ==
    \/ \E type \in {"CONCEPT", "ACTION"}, name \in {"cpu_load", "", NullName} :
           atom_create_call(1, type, name)
    \/ atom_create_lock(1)
    \/ atom_create_check(1)
    \/ atom_create_enter(1)

SpecNames == AgencyInit /\ [][NextNames]_vars

(***************************************************************************)
(* References: one caller allocates atoms, adds them as beliefs of the     *)
(* agent, gives back references it got from allocate, and destroys the     *)
(* agent.                                                                  *)
(***************************************************************************)
\* the references on atom n that the agents hold through their collections
AgentsHold(n) ==
    LET held(y) == IF agent[y].st = "live"
                   THEN Occurrences(gh.goals[y], n) + Occurrences(gh.beliefs[y], n)
                        + Occurrences(gh.knowledge[y], n)
                   ELSE 0
    IN  held(1) + held(2)

NextRefs ==
    \/ atom_create_call(1, "CONCEPT", "cpu_load")
    \/ atom_create_lock(1)
    \/ atom_create_check(1)
    \/ atom_create_enter(1)
    \/ \E a \in AtomNodes : add_belief_call(1, AgentN(1), a)
    \/ add_belief_enter(1)
    \/ \E a \in AtomNodes :
           /\ atom[Idx(a)].ref_count > AgentsHold(a)
           /\ atom_destroy_call(1, a)
    \/ atom_destroy_drop(1)
    \/ agent_destroy_call(1, AgentN(1))
    \/ agent_destroy_release(1)
    \/ agent_destroy_remove(1)

SpecRefs == Booted(0, 1, "CONCEPT", "cpu_load") /\ [][NextRefs]_vars

(***************************************************************************)
(* Lock order: two callers on an agency with one agent create and destroy  *)
(* agents, add a rule, run reason and apply_rules and shut the agency      *)
(* down.                                                                   *)
(***************************************************************************)
NextLocks ==
    \E t \in Threads :
        \/ /\ agency.initialized
           /\ agent_create_call(t)
        \/ agent_create_register(t)
        \/ rule_create(t, "CONCEPT", "ACTION", 700)
        \/ \E r \in RuleIds : agency_add_rule(t, r)
        \/ \E y \in AgentIds :
               /\ agent[y].reasoning_cycles = 0
               /\ reason_call(t, AgentN(y))
        \/ reason_think(t)
        \/ reason_idle(t)
        \/ \E y \in AgentIds : apply_rules_call(t, AgentN(y))
        \/ apply_rules_lock_agent(t)
        \/ apply_rules_lock_agency(t)
        \/ apply_rules_rule(t)
        \/ apply_rules_belief(t)
        \/ \E y \in AgentIds : agent_destroy_call(t, AgentN(y))
        \/ agent_destroy_release(t)
        \/ agent_destroy_remove(t)
        \/ shutdown_call(t)
        \/ shutdown_lock(t)
        \/ shutdown_agents(t)
        \/ shutdown_space(t)

SpecLocks == Booted(0, 1, "CONCEPT", "cpu_load") /\ [][NextLocks]_vars

(***************************************************************************)
(* Crossing link operations: two callers create, remove and count links    *)
(* between two atoms, in both directions.                                  *)
(***************************************************************************)
NextCross ==
    \E t \in Threads :
        \/ \E from \in AtomNodes : \E to \in AtomNodes \ {from} :
               create_link_call(t, from, to, 0, Half)
        \/ create_link_out(t)
        \/ create_link_in(t)
        \/ \E from \in AtomNodes : \E to \in AtomNodes \ {from} :
               remove_link_call(t, from, to)
        \/ remove_link_out(t)
        \/ remove_link_in(t)
        \/ \E a \in AtomNodes : count_links_call(t, a)
        \/ count_links_count(t)

SpecCross == Booted(2, 0, "CONCEPT", "cpu_load") /\ [][NextCross]_vars

(***************************************************************************)
(* Reference counts: two callers add the same atoms as beliefs of two      *)
(* agents and create links to them.                                        *)
(***************************************************************************)
NextRace ==
    \E t \in Threads :
        \/ \E y \in AgentIds, a \in AtomNodes : add_belief_call(t, AgentN(y), a)
        \/ add_belief_load(t)
        \/ add_belief_store(t)
        \/ \E from \in AtomNodes : \E to \in AtomNodes \ {from} :
               /\ atom[Idx(to)].ref_count < MaxRefs
               /\ create_link_call(t, from, to, 0, Half)
        \/ create_link_out(t)
        \/ create_link_in(t)

SpecRace == Booted(2, 2, "CONCEPT", "cpu_load") /\ [][NextRace]_vars

(***************************************************************************)
(* The two phases of reason: the first caller registers a rule and runs    *)
(* reason once on the agent; the second adds the first atom as a belief at *)
(* any time and the second atom only between the two phases.               *)
(***************************************************************************)
\* thread t is in reason, past phase 1 and before the rule application has
\* taken the agent lock
BetweenPhases(t) == th[t].op = "reason" /\ th[t].pc = "ar_agent"

NextGap ==
    \/ \E thr \in {Half, 700} : rule_create(1, "CONCEPT", "ACTION", thr)
    \/ \E r \in RuleIds : agency_add_rule(1, r)
    \/ /\ agent[1].reasoning_cycles = 0
       /\ reason_call(1, AgentN(1))
    \/ reason_think(1)
    \/ reason_idle(1)
    \/ apply_rules_lock_agent(1)
    \/ apply_rules_lock_agency(1)
    \/ apply_rules_rule(1)
    \/ apply_rules_belief(1)
    \/ add_belief_call(2, AgentN(1), AtomN(1))
    \/ /\ BetweenPhases(1)
       /\ add_belief_call(2, AgentN(1), AtomN(2))
    \/ add_belief_enter(2)

SpecGap == Booted(2, 1, "CONCEPT", "cpu_load") /\ [][NextGap]_vars

(***************************************************************************)
(* Atom ids: two callers make a second Atomspace and allocate atoms in     *)
(* either Atomspace.                                                       *)
(***************************************************************************)
NextIds ==
    \E t \in Threads :
        \/ atomspace_create(t)
        \/ \E head \in {AtomsHead, OtherHead}, name \in {"cpu_load", NullName} :
               atom_create_in_call(t, head, "CONCEPT", name)
        \/ atom_create_in_check(t)
        \/ atom_create_in_load(t)
        \/ atom_create_in_store(t)

SpecIds == AgencyInit /\ [][NextIds]_vars

(***************************************************************************)
(* Truth ranges: one caller sets the truth of the atom with numbers in and *)
(* out of range and with the float that is no number, lets the agent learn *)
(* it, adds it as a belief, registers a rule and applies the rules.        *)
(***************************************************************************)
NextRange ==
    \/ \E s \in {0 - 100, One, NaN}, c \in {Half, One + 100, NaN} :
           set_truth_call(1, AtomN(1), s, c)
    \/ set_truth_store(1)
    \/ /\ gh.knowledge[1] = <<>>
       /\ learn_call(1, AgentN(1), AtomN(1))
    \/ learn_store(1)
    \/ /\ gh.beliefs[1] = <<>>
       /\ add_belief_call(1, AgentN(1), AtomN(1))
    \/ add_belief_enter(1)
    \/ rule_create(1, "CONCEPT", "ACTION", Half)
    \/ \E r \in RuleIds : agency_add_rule(1, r)
    \/ apply_rules_call(1, AgentN(1))
    \/ apply_rules_lock_agent(1)
    \/ apply_rules_lock_agency(1)
    \/ apply_rules_rule(1)
    \/ apply_rules_belief(1)

SpecRange == Booted(1, 1, "CONCEPT", "cpu_load") /\ [][NextRange]_vars

(***************************************************************************)
(* Message counters: two threads send the atom from the first agent to     *)
(* either agent, receive and ask for the number of pending messages.       *)
(***************************************************************************)
NextPending ==
    \E t \in Threads :
        \/ \E to \in AgentIds :
               send_message_call(t, AgentN(1), AgentN(to), AtomN(1))
        \/ send_message_from(t)
        \/ send_message_to(t)
        \/ \E y \in AgentIds : receive_message_call(t, AgentN(y))
        \/ receive_message_dequeue(t)
        \/ \E y \in AgentIds : pending_messages_call(t, AgentN(y))
        \/ pending_messages_read(t)

SpecPending == Booted(1, 2, "CONCEPT", "cpu_load") /\ [][NextPending]_vars

(***************************************************************************)
(* Truth read by apply_rules: the first caller makes the atom a belief,    *)
(* registers a rule and applies the rules; the second sets the truth of    *)
(* the belief.                                                             *)
(***************************************************************************)
NextTear ==
    \/ /\ gh.beliefs[1] = <<>>
       /\ add_belief_call(1, AgentN(1), AtomN(1))
    \/ add_belief_enter(1)
    \/ rule_create(1, "CONCEPT", "ACTION", Half)
    \/ \E r \in RuleIds : agency_add_rule(1, r)
    \/ apply_rules_call(1, AgentN(1))
    \/ apply_rules_lock_agent(1)
    \/ apply_rules_lock_agency(1)
    \/ apply_rules_rule(1)
    \/ apply_rules_test(1)
    \/ apply_rules_strength(1)
    \/ apply_rules_confidence(1)
    \/ set_truth_call(2, AtomN(1), 200, 100)
    \/ set_truth_store(2)

SpecTear == Booted(1, 1, "CONCEPT", "cpu_load") /\ [][NextTear]_vars

(***************************************************************************)
(* Agent ids: two callers create and destroy agents.                       *)
(***************************************************************************)
NextAgents ==
    \E t \in Threads :
        \/ /\ next_agent_id <= MaxRefs
           /\ agent_create_alloc(t)
        \/ agent_create_load(t)
        \/ agent_create_store(t)
        \/ agent_create_register(t)
        \/ \E y \in AgentIds :
               /\ \A u \in Threads : th[u].a = AgentN(y) => th[u].pc = "idle"
               /\ agent_destroy_call(t, AgentN(y))
        \/ agent_destroy_release(t)
        \/ agent_destroy_remove(t)

SpecAgents == AgencyInit /\ [][NextAgents]_vars

(***************************************************************************)
(* Overlapping operations on the first agent: one caller reasons, applies  *)
(* the rules, makes a plan and executes it, while the other learns, acts   *)
(* and sends.                                                              *)
(***************************************************************************)
NextOverlap ==
    \/ /\ agent[1].reasoning_cycles = 0
       /\ reason_call(1, AgentN(1))
    \/ reason_think(1)
    \/ reason_idle(1)
    \/ /\ agent[1].reasoning_cycles = 0
       /\ apply_rules_call(1, AgentN(1))
    \/ apply_rules_lock_agent(1)
    \/ apply_rules_lock_agency(1)
    \/ apply_rules_rule(1)
    \/ /\ plan[1].st = "none"
       /\ create_plan_call(1, AgentN(1), AtomN(1))
    \/ create_plan_build(1)
    \/ /\ agent[1].actions_executed = 0
       /\ execute_plan_call(1, AgentN(1))
    \/ /\ gh.knowledge[1] = <<>>
       /\ learn_call(2, AgentN(1), AtomN(1))
    \/ learn_store(2)
    \/ /\ agent[1].actions_executed = 0
       /\ act_call(2, AgentN(1))
    \/ \E t \in Threads : execute_plan_run(t)
    \/ act_default(2)
    \/ /\ agent[1].messages_sent = 0
       /\ send_message_call(2, AgentN(1), AgentN(2), AtomN(1))
    \/ send_message_from(2)
    \/ send_message_to(2)

SpecOverlap == Booted(1, 2, "CONCEPT", "cpu_load") /\ [][NextOverlap]_vars

(***************************************************************************)
(* Tracing: one caller switches tracing on and off, and both record        *)
(* events, each its own.                                                   *)
(***************************************************************************)
NextTrace ==
    \/ \E enable \in BOOLEAN : mach_trace_enable(1, enable)
    \/ \E t \in Threads : mach_trace_event_call(t, t)
    \/ \E t \in Threads : mach_trace_event_store(t)

SpecTrace == AgencyInit /\ [][NextTrace]_vars

(***************************************************************************)
(* Acting: two callers act on one agent and execute its plans, while the   *)
(* first also makes the plans.                                             *)
(***************************************************************************)
NextAct ==
    \/ \E a \in AtomNodes : add_belief_call(1, AgentN(1), a)
    \/ add_belief_enter(1)
    \/ create_plan_call(1, AgentN(1), AtomN(2))
    \/ create_plan_build(1)
    \/ \E t \in Threads : execute_plan_call(t, AgentN(1))
    \/ \E t \in Threads : execute_plan_run(t)
    \/ \E t \in Threads : act_call(t, AgentN(1))
    \/ \E t \in Threads : act_default(t)

SpecAct == Booted(2, 1, "CONCEPT", "cpu_load") /\ [][NextAct]_vars

\* the members of the Atomspace, as a walk of space->atoms finds them
Members == queue_iterate(lk, AtomsHead)
LiveAtoms == {i \in AtomIds : atom[i].st = "live"}

\* thread t has just returned from a call of op
Returned(t, op) == th[t].pc = "idle" /\ th[t].op = op

(***************************************************************************)
(* C1: with capacity max_atoms = N, under any interleaving of allocate     *)
(* calls exactly the first N succeed: atom_count never exceeds max_atoms,  *)
(* it counts the atoms allocated, every one of them is a member of the     *)
(* Atomspace, and a call returns the null atom only when atom_count is N   *)
(* (and then leaves it at N).                                              *)
(***************************************************************************)
C1_CapacityBound ==
    /\ space.atom_count <= space.max_atoms
    /\ space.atom_count = Cardinality(LiveAtoms)
    /\ Members.ends /\ Len(Members.elts) = space.atom_count
    /\ \A t \in Threads :
           Returned(t, "atom_create") =>
               IF th[t].out = NULL
               THEN space.atom_count = space.max_atoms
               ELSE /\ IsAtom(th[t].out)
                    /\ atom[Idx(th[t].out)].st = "live"
                    /\ \E k \in 1 .. Len(Members.elts) : Members.elts[k] = th[t].out

\* the Atomspace is full, one call has been refused and another is waiting
C1_Witness ==
    /\ space.atom_count = MaxAtoms
    /\ \E t \in Threads : Returned(t, "atom_create") /\ th[t].out = NULL
    /\ \E t \in Threads : th[t].pc = "ac_lock"

(***************************************************************************)
(* C9: for every strength and confidence in [0,1], ends included,          *)
(* set_truth returns Success, the atom then holds exactly those two values *)
(* and its observation count is one more than before the call.             *)
(***************************************************************************)
C9_SetTruthStores ==
    \A t \in Threads :
        (Returned(t, "set_truth")
           /\ th[t].s \in 0 .. One /\ th[t].c \in 0 .. One) =>
            /\ th[t].ret = "KERN_SUCCESS"
            /\ atom[Idx(th[t].a)] =
                   [gh.snap EXCEPT !.strength = th[t].s, !.confidence = th[t].c,
                                   !.count = gh.snap.count + 1]

\* truth (1.0, 0.0) has been stored by the second valid call on the atom
C9_Witness ==
    /\ Returned(1, "set_truth") /\ th[1].ret = "KERN_SUCCESS"
    /\ th[1].s = One /\ th[1].c = 0
    /\ atom[Idx(th[1].a)].strength = One /\ atom[Idx(th[1].a)].confidence = 0
    /\ atom[Idx(th[1].a)].count = 2

OnlyLink(l) ==
    /\ alink[l].st # "none"
    /\ alink[l].src # alink[l].target
    /\ \A m \in LinkIds \ {l} : alink[m].st = "none"
    /\ \A t \in Threads : th[t].pc \notin {"cl_from", "cl_to"}

\* thread t has asked for the link count of an end of link l and is past the
\* lock
CountsEndOf(t, l) ==
    /\ th[t].op = "count_links" /\ th[t].pc # "cn_lock"
    /\ th[t].a \in {alink[l].src, alink[l].target}

\* thread t has asked to remove link l by its two ends and is past the lock
\* of the source
RemovesEndsOf(t, l) ==
    /\ th[t].op = "remove_link" /\ th[t].pc # "rl_from"
    /\ th[t].a = alink[l].src /\ th[t].b = alink[l].target

C2_LinkCounts ==
    \A t \in Threads, l \in LinkIds :
        OnlyLink(l) =>
            /\ CountsEndOf(t, l) =>
                   /\ ~Stuck(t)
                   /\ th[t].n = (IF alink[l].st = "live" THEN 1 ELSE 0)
            /\ RemovesEndsOf(t, l) =>
                   /\ ~Stuck(t)
                   /\ (th[t].k > 0 /\ th[t].pc = "idle") =>
                          (th[t].ret = "KERN_SUCCESS" /\ alink[l].st = "freed")
                   /\ th[t].k = 0 =>
                          /\ th[t].pc = "idle"
                          /\ th[t].ret = "KERN_INVALID_ARGUMENT"
                          /\ atom[Idx(th[t].b)] = gh.snap

(***************************************************************************)
(* C6: send(X,Y,m) followed by receive(Y), on a queue that was empty,      *)
(* returns Success with content m, leaves Y.message_count at 0, and leaves *)
(* X.messages_sent and Y.messages_processed each exactly 1 above their     *)
(* values before the send (also when X = Y).                               *)
(***************************************************************************)
C6_SendThenReceive ==
    (gh.pair.stage = 2 /\ Returned(gh.pair.t, "receive_message")) =>
        /\ th[gh.pair.t].ret = "KERN_SUCCESS"
        /\ th[gh.pair.t].out = gh.pair.m
        /\ agent[gh.pair.y].message_count = 0
        /\ agent[gh.pair.x].messages_sent = gh.pair.sent0 + 1
        /\ agent[gh.pair.y].messages_processed = gh.pair.proc0 + 1

\* an agent has sent to itself and received, after an earlier exchange
C6_Witness ==
    /\ gh.pair.stage = 2 /\ Returned(gh.pair.t, "receive_message")
    /\ gh.pair.x = gh.pair.y /\ gh.pair.sent0 = 1
    /\ th[gh.pair.t].out = AtomN(2)

(***************************************************************************)
(* C7: each agent's message queue is strict FIFO: the messages received    *)
(* from agent Y so far, followed by those still in Y's queue, are the      *)
(* messages enqueued to Y in the order of their enqueueing; none is lost,  *)
(* duplicated or reordered, and message_count is the length of the queue.  *)
(***************************************************************************)
C7_Fifo ==
    \A y \in AgentIds :
        agent[y].st = "live" =>
            LET w == queue_iterate(lk, MessageHead(y))
            IN  /\ w.ends
                /\ gh.rcvd[y] \o w.elts = gh.sent[y]
                /\ agent[y].message_count = Len(w.elts)

\* one message received from an agent and another still queued behind it
C7_Witness ==
    \E y \in AgentIds :
        /\ Len(gh.rcvd[y]) = 1 /\ Len(gh.sent[y]) = 2
        /\ msg[Idx(gh.sent[y][1])].content # msg[Idx(gh.sent[y][2])].content
        /\ msg[Idx(gh.sent[y][1])].sender # msg[Idx(gh.sent[y][2])].sender

(***************************************************************************)
(* C8: receive() on an agent whose queue is empty returns Success with the *)
(* output set to null, leaves message_count at 0 and changes no other      *)
(* field of any agent, nor the queue.                                      *)
(***************************************************************************)
C8_ReceiveEmpty ==
    [][\A t \in Threads :
          (/\ th[t].pc = "rm_lock" /\ th'[t].pc = "idle"
           /\ queue_empty(lk, MessageHead(Idx(th[t].a)))) =>
              /\ th'[t].ret = "KERN_SUCCESS"
              /\ th'[t].out = NULL
              /\ agent[Idx(th[t].a)].message_count = 0
              /\ agent' = agent
              /\ lk' = lk /\ msg' = msg /\ atom' = atom]_vars

\* a receive has found the queue empty after the agent had sent a message
C8_Witness ==
    \E t \in Threads, y \in AgentIds, z \in AgentIds :
        /\ Returned(t, "receive_message") /\ th[t].out = NULL
        /\ agent[y].state = "COMMUNICATING"
        /\ gh.rcvd[y] = <<>> /\ Len(gh.rcvd[z]) = 1
        /\ gh.pair = NoPair

(***************************************************************************)
(* C4: apply_rules creates, for every (rule, belief) pair whose belief has *)
(* the rule's condition type and a confidence of at least the rule's       *)
(* threshold, exactly one new atom of the rule's conclusion type with      *)
(* truth (strength * 0.8, confidence * 0.9), and adds one to the rule's    *)
(* times_applied: a call with room for its conclusions in the Atomspace    *)
(* derives from the matching pairs in order and from nothing else, comes   *)
(* back, and has then added as many atoms as pairs matched (a belief of    *)
(* truth (0.9, 0.8) under a threshold of 0.7 yields one atom of truth      *)
(* (0.72, 0.72)).                                                          *)
(***************************************************************************)
\* the number of pairs of the call whose rule is r
RECURSIVE PairsWithRule(_, _)
PairsWithRule(ps, r) ==
    IF ps = <<>> THEN 0
    ELSE (IF Head(ps).rule = r THEN 1 ELSE 0) + PairsWithRule(Tail(ps), r)

\* thread t is in, or back from, a call of apply_rules that had room for
\* one atom per matching pair
ApplyingWithRoom(t) ==
    /\ th[t].op = "apply_rules" /\ th[t].ret # "KERN_INVALID_ARGUMENT"
    /\ gh.count0 + Len(gh.expected) <= space.max_atoms

C4_RulePairs ==
    \A t \in Threads :
        ApplyingWithRoom(t) =>
            /\ ~Stuck(t)
            /\ Len(gh.derived) <= Len(gh.expected)
            /\ \A j \in 1 .. Len(gh.derived) :
                   /\ j <= Len(gh.expected)
                        => /\ gh.derived[j].rule = gh.expected[j].rule
                           /\ gh.derived[j].belief = gh.expected[j].belief
                   /\ LET d == gh.derived[j]
                          new == atom[Idx(d.new)]
                          b == atom[Idx(d.belief)]
                      IN  /\ new.type = rule[d.rule].conclusion_type
                          /\ new.strength = (b.strength * 8) \div 10
                          /\ new.confidence = (b.confidence * 9) \div 10
                          /\ (b.strength = 900 /\ b.confidence = 800)
                                => (new.strength = 720 /\ new.confidence = 720)
            /\ th[t].pc = "idle"
                 => /\ Len(gh.derived) = Len(gh.expected)
                    /\ space.atom_count = gh.count0 + Len(gh.expected)
                    /\ \A r \in RuleIds :
                          rule[r].st = "live" =>
                             rule[r].times_applied
                                = gh.applied0[r] + PairsWithRule(gh.expected, r)

(***************************************************************************)
(* C5, as the specification states it: apply_rules returns Success exactly *)
(* when at least one (rule, belief) pair matches, and the failure signal   *)
(* otherwise; a call that returns the failure signal has left atom_count   *)
(* and every rule's times_applied as they were and derived nothing.        *)
(***************************************************************************)
\* the call of thread t has changed nothing
NothingDerived(t) ==
    /\ gh.derived = <<>>
    /\ space.atom_count = gh.count0
    /\ \A r \in RuleIds : rule[r].times_applied = gh.applied0[r]

\* thread t is back from apply_rules with Success or the failure signal
AppliedRules(t) ==
    /\ Returned(t, "apply_rules")
    /\ th[t].ret \in {"KERN_SUCCESS", "KERN_FAILURE"}

WaitsFor(t) ==
    CASE th[t].pc = "ad_lock" -> {AgentLock(Idx(th[t].a))}
      [] th[t].pc = "ad_agency" -> {AgencyLock}
      [] th[t].pc = "sd_lock" -> {AgencyLock}
      [] th[t].pc = "sd_space" -> {SpaceLock}
      [] OTHER -> {}

C3_ShutdownCompletes ==
    \A t \in Threads :
        th[t].op = "shutdown" =>
            /\ ~Stuck(t)
            /\ \A l \in WaitsFor(t) : ~SelfDeadlock(t, l)
            /\ th[t].ret = "done"
                 => /\ agency.agent_count = 0
                    /\ \A y \in AgentIds : agent[y].st # "live"
                    /\ ~agency.atomspace /\ ~space.exists
                    /\ ~agency.initialized

(***************************************************************************)
(* C11: create_plan on an agent and a goal returns with a plan that holds, *)
(* for each belief of the agent with strength > 0.5 and in the order the   *)
(* beliefs were added, the action "analyze_state" (cost 1.0) and then      *)
(* "execute_optimization" (cost 2.0), each with the belief as precondition *)
(* and the goal as effect: with k such beliefs action_count = 2k and       *)
(* total_cost = 3.0k, a belief of strength exactly 0.5 contributing        *)
(* nothing; the goal's ref_count is one more than before the call.         *)
(***************************************************************************)
\* the beliefs added to agent y whose strength is above 0.5, in the order of
\* the add_belief calls
StrongBeliefs(y) ==
    SelectSeq(gh.beliefs[y], LAMBDA b : atom[Idx(b)].strength > Half)

\* the k-th action of the sequence acts is the action create_plan makes under
\* that name and cost for the belief and the goal
IsStep(acts, k, name, cost, belief, goal) ==
    /\ action[Idx(acts[k])].name = name
    /\ action[Idx(acts[k])].cost = cost
    /\ action[Idx(acts[k])].precondition = belief
    /\ action[Idx(acts[k])].effect = goal
    /\ ~action[Idx(acts[k])].completed

C11_PlanFromBeliefs ==
    \A t \in Threads :
        th[t].op = "create_plan" =>
            /\ ~Stuck(t)
            /\ Returned(t, "create_plan") =>
                  LET p == Idx(gh.made)
                      B == StrongBeliefs(Idx(th[t].a))
                      acts == ActionsOf(p)
                  IN  /\ th[t].ret = "KERN_SUCCESS"
                      /\ plan[p].goal = th[t].b
                      /\ plan[p].action_count = 2 * Len(B)
                      /\ plan[p].total_cost = 3 * One * Len(B)
                      /\ Len(acts) = 2 * Len(B)
                      /\ \A k \in 1 .. Len(B) :
                            /\ IsStep(acts, 2 * k - 1, "analyze_state", One,
                                      B[k], th[t].b)
                            /\ IsStep(acts, 2 * k, "execute_optimization",
                                      2 * One, B[k], th[t].b)
                      /\ atom[Idx(th[t].b)].ref_count = gh.count0 + 1

(***************************************************************************)
(* C12: execute_plan on an agent with a current plan marks every action of *)
(* the plan completed, adds the number of actions that were not yet        *)
(* completed to actions_executed, sets the plan's valid flag to false and  *)
(* current_plan to null and leaves the agent Idle; no other plan of the    *)
(* agent becomes current, and the act() that follows takes the default     *)
(* action.                                                                 *)
(***************************************************************************)
\* the number of actions of plan p not completed
OpenActions(p) ==
    Cardinality({k \in 1 .. Len(ActionsOf(p)) :
                    ~action[Idx(ActionsOf(p)[k])].completed})

\* this step is the return of thread t from execute_plan's body, entered
\* with a current plan
ExecutesPlan(t) ==
    /\ th[t].pc = "ep_lock" /\ th'[t].pc = "idle"
    /\ agent[Idx(th[t].a)].current_plan # NULL

\* this step is thread t calling act() right after its execute_plan returned
\* Success
ActsAfterPlan(t) ==
    /\ Returned(t, "execute_plan") /\ th[t].ret = "KERN_SUCCESS"
    /\ th'[t].op = "act"

C12_ExecutePlan ==
    [][\A t \in Threads :
          /\ ExecutesPlan(t) =>
                LET y == Idx(th[t].a)
                    p == Idx(agent[y].current_plan)
                IN  /\ th'[t].ret = "KERN_SUCCESS"
                    /\ \A k \in 1 .. Len(ActionsOf(p)) :
                          action'[Idx(ActionsOf(p)[k])].completed
                    /\ Len(ActionsOf(p)) = plan[p].action_count
                    /\ agent'[y].actions_executed =
                          agent[y].actions_executed + OpenActions(p)
                    /\ ~plan'[p].valid
                    /\ agent'[y].current_plan = NULL
                    /\ agent'[y].state = "IDLE"
                    /\ \A q \in PlanIds \ {p} : plan'[q] = plan[q]
          /\ ActsAfterPlan(t) => th'[t].pc = "act_lock"]_vars

\* execute_plan has returned from a plan of two actions while the agent holds
\* a second plan, which did not become current
C12_Witness ==
    /\ Returned(1, "execute_plan") /\ th[1].ret = "KERN_SUCCESS"
    /\ gh.todo = 2 /\ gh.made = PlanN(1)
    /\ agent[1].actions_executed = gh.exec0 + 2
    /\ plan[2].st = "live" /\ plan[2].valid
    /\ agent[1].current_plan = NULL

(***************************************************************************)
(* C13: create_plan makes the new plan the agent's current_plan only when  *)
(* current_plan is null; while a current plan exists, every further        *)
(* create_plan appends its plan to agent.plans and leaves current_plan at  *)
(* the earlier plan (first plan wins).                                     *)
(***************************************************************************)
\* the plans of agent y, as a walk of agent->plans finds them
PlansOf(y) == queue_iterate(lk, PlansHead(y)).elts

\* this step is the return of thread t from create_plan
CreatesPlan(t) ==
    /\ th[t].pc = "cp_lock" /\ th'[t].pc = "idle"

C13_FirstPlanWins ==
    [][\A t \in Threads :
          CreatesPlan(t) =>
              LET y == Idx(th[t].a)
                  p == Lowest(FreeIds(PlanIds, plan))
              IN  /\ plan'[p].st = "live" /\ plan'[p].valid
                  /\ queue_iterate(lk', PlansHead(y)).elts
                        = Append(PlansOf(y), PlanN(p))
                  /\ agent[y].current_plan = NULL
                        => agent'[y].current_plan = PlanN(p)
                  /\ agent[y].current_plan # NULL
                        => agent'[y].current_plan = agent[y].current_plan]_vars

\* a second create_plan has returned while the first plan, not yet executed,
\* is still the current plan; both plans are in agent.plans
C13_Witness ==
    /\ Returned(1, "create_plan") /\ th[1].ret = "KERN_SUCCESS"
    /\ gh.made = PlanN(2) /\ gh.cur0 = PlanN(1)
    /\ agent[1].current_plan = PlanN(1)
    /\ PlansOf(1) = <<PlanN(1), PlanN(2)>>

(***************************************************************************)
(* C14: every act() on a valid agent returns Success, having done exactly  *)
(* one of two things: with a current plan set it executed the plan as      *)
(* execute_plan does, otherwise it added exactly 1 to actions_executed and *)
(* left the agent Idle; also when several act() and execute_plan calls run *)
(* concurrently on the agent.                                              *)
(***************************************************************************)
C14_ActSucceeds ==
    \A t \in Threads :
        Returned(t, "act") => th[t].ret = "KERN_SUCCESS"

(***************************************************************************)
(* C15: send puts the sender into state Communicating, and the state stays *)
(* until the next state-changing call on that agent (reason, apply_rules,  *)
(* act, execute_plan, learn); receive, add_goal, add_belief, create_plan,  *)
(* pending_messages and being the recipient of a send never change an      *)
(* agent's state.                                                          *)
(***************************************************************************)
\* the calls that may change the state of the agent they are called on
StateChangingOps == {"reason", "apply_rules", "act", "execute_plan", "learn"}

\* the calls that change no agent's state
StateKeepingOps ==
    {"receive_message", "add_goal", "add_belief", "create_plan",
     "pending_messages", "get_state"}

\* the agents whose state this step changes
StateChanged == {y \in AgentIds : agent'[y].state # agent[y].state}

C15_CommunicatingPersists ==
    [][\A t \in Threads :
          th'[t] # th[t] =>
              /\ th'[t].op \in StateKeepingOps => StateChanged = {}
              /\ th'[t].op = "send_message" =>
                    /\ StateChanged \subseteq {Idx(th[t].a)}
                    /\ th[t].pc = "sm_from"
                          => agent'[Idx(th[t].a)].state = "COMMUNICATING"
                    /\ (th'[t].pc = "idle" /\ AllIdleBut(t))
                          => agent'[Idx(th[t].a)].state = "COMMUNICATING"
              /\ StateChanged # {} =>
                    /\ th'[t].op \in StateChangingOps \cup {"send_message"}
                    /\ StateChanged = {Idx(th'[t].a)}]_vars

\* the sender is still Communicating after it sent to the other agent, which
\* stayed Idle, then added a goal and asked for its pending messages
C15_Witness ==
    /\ agent[1].state = "COMMUNICATING" /\ agent[2].state = "IDLE"
    /\ agent[1].messages_sent = 1 /\ agent[2].message_count = 1
    /\ Len(gh.goals[1]) = 1
    /\ Returned(1, "pending_messages")

(***************************************************************************)
(* C16: add_goal and add_belief append a reference without deduplication:  *)
(* after k calls of add_belief(agent, a) the agent's beliefs hold k        *)
(* entries for a, in insertion order among the other beliefs, and          *)
(* a.ref_count has grown by k; the same atom may be at once in the goals   *)
(* and the beliefs of one agent and in the collections of several agents,  *)
(* each holding its own entry.                                             *)
(***************************************************************************)
\* the references the add_goal and add_belief calls so far took on atom n
ReferencesAdded(n) ==
    LET perAgent(y) == Occurrences(gh.goals[y], n) + Occurrences(gh.beliefs[y], n)
    IN  perAgent(1) + perAgent(2)

\* a walk of the queue at head ends and finds exactly the sequence q
Holds(head, q) ==
    /\ queue_iterate(lk, head).ends
    /\ queue_iterate(lk, head).elts = q

C16_NoDedup ==
    (\A t \in Threads : th[t].pc = "idle" /\ th[t].op # "learn")
    /\ (\A y \in AgentIds : gh.knowledge[y] = <<>>)
        => /\ \A y \in AgentIds :
                 /\ Holds(BeliefsHead(y), gh.beliefs[y])
                 /\ Holds(GoalsHead(y), gh.goals[y])
           /\ \A i \in AtomIds :
                 atom[i].st = "live"
                    => atom[i].ref_count = 1 + ReferencesAdded(AtomN(i))

(***************************************************************************)
(* C17: learn(agent, experience) sets the experience's confidence to       *)
(* min(1.0, old + 0.05), adds 1 to its observation count and to its        *)
(* ref_count, appends it to the agent's knowledge and leaves the agent     *)
(* Idle; learning the same atom k times gives k knowledge entries for it.  *)
(***************************************************************************)
\* min(1.0, c + 0.05)
StepUp(c) == IF c + 50 < One THEN c + 50 ELSE One

C17_Learn ==
    \A t \in Threads :
        Returned(t, "learn") =>
            LET y == Idx(th[t].a)
                e == atom[Idx(th[t].b)]
            IN  /\ th[t].ret = "KERN_SUCCESS"
                /\ e.confidence = StepUp(gh.snap.confidence)
                /\ e.count = gh.snap.count + 1
                /\ e.ref_count = gh.snap.ref_count + 1
                /\ agent[y].state = "IDLE"
                /\ Holds(KnowledgeHead(y), gh.knowledge[y])

(***************************************************************************)
(* C18: destroying an agent terminates, releases exactly one reference for *)
(* every entry of its goals, beliefs and knowledge, whatever their number, *)
(* and removes the agent from the registry of the Agency, agent_count      *)
(* going down by exactly 1.                                                *)
(***************************************************************************)
\* the agents that are registered and not destroyed
LiveAgents == {y \in AgentIds : agent[y].st = "live"}

\* the references the agents in the set ys hold on atom n through their
\* goals, beliefs and knowledge
RECURSIVE ReferencesHeld(_, _)
ReferencesHeld(ys, n) ==
    IF ys = {} THEN 0
    ELSE LET y == Lowest(ys)
         IN  Occurrences(gh.goals[y], n) + Occurrences(gh.beliefs[y], n)
             + Occurrences(gh.knowledge[y], n)
             + ReferencesHeld(ys \ {y}, n)

C18_AgentDestroy ==
    \A t \in Threads :
        th[t].op = "agent_destroy" =>
            /\ ~Stuck(t)
            /\ Returned(t, "agent_destroy") /\ agency.initialized =>
                  /\ agency.agent_count = Cardinality(LiveAgents)
                  /\ queue_iterate(lk, AgentsHead).ends
                  /\ \A y \in AgentIds :
                        (\E j \in 1 .. Len(queue_iterate(lk, AgentsHead).elts) :
                             queue_iterate(lk, AgentsHead).elts[j] = AgentN(y))
                        <=> y \in LiveAgents
                  /\ \A i \in AtomIds :
                        atom[i].st # "none" =>
                            /\ atom[i].st = "live"
                            /\ atom[i].ref_count
                                 = 1 + ReferencesHeld(LiveAgents, AtomN(i))

(***************************************************************************)
(* C19: destroying the Atomspace terminates for any number n >= 0 of       *)
(* member atoms and frees every one of them, whatever its ref_count.       *)
(***************************************************************************)
C19_SpaceDestroy ==
    \A t \in Threads :
        th[t].op = "atomspace_destroy" =>
            /\ ~Stuck(t)
            /\ Returned(t, "atomspace_destroy") =>
                  /\ ~space.exists
                  /\ \A j \in 1 .. Len(gh.members) :
                        atom[Idx(gh.members[j])].st = "freed"

(***************************************************************************)
(* C20: lookup(name) returns the first atom, in the order of insertion     *)
(* into the Atomspace, whose name is name, and adds 1 to the ref_count of  *)
(* that atom only; without such a member it terminates, returns null and   *)
(* changes no ref_count. find_by_type(type) does the same with the type as *)
(* the key.                                                                *)
(***************************************************************************)
\* the members of the Atomspace that thread t's search is for
Matching(t) ==
    {i \in AtomIds :
        /\ atom[i].st = "live"
        /\ IF th[t].op = "atom_lookup" THEN atom[i].name = th[t].nm
                                       ELSE atom[i].type = th[t].ty}

\* the atom the search of thread t is to return: the matching member created
\* first, or null
FirstMatching(t) ==
    IF Matching(t) = {} THEN NULL ELSE AtomN(Lowest(Matching(t)))

C20_Search ==
    \A t \in Threads :
        th[t].op \in {"atom_lookup", "find_by_type"} =>
            /\ ~Stuck(t)
            /\ th[t].pc = "idle" =>
                  /\ th[t].out = FirstMatching(t)
                  /\ \A i \in AtomIds :
                        atom[i].ref_count
                          = gh.refs0[i] + (IF AtomN(i) = th[t].out THEN 1 ELSE 0)

(***************************************************************************)
(* C21: query(type, max_results) on an Atomspace with m members of that    *)
(* type returns exactly min(max_results, m) atoms, the first ones of that  *)
(* type in insertion order, adds 1 to the ref_count of each atom returned  *)
(* and leaves the ref_count of every other atom unchanged.                 *)
(***************************************************************************)
\* the members of the Atomspace of the type thread t asks for, in the order
\* of their creation
RECURSIVE MembersOfType(_, _)
MembersOfType(t, i) ==
    IF i > MaxAtoms + 1 THEN <<>>
    ELSE (IF atom[i].st = "live" /\ atom[i].type = th[t].ty
          THEN <<AtomN(i)>> ELSE <<>>) \o MembersOfType(t, i + 1)

C21_Query ==
    \A t \in Threads :
        th[t].op = "query" =>
            /\ ~Stuck(t)
            /\ th[t].pc = "idle" =>
                  /\ th[t].res = FirstOf(MembersOfType(t, 1), th[t].k)
                  /\ th[t].n = Len(th[t].res)
                  /\ \A i \in AtomIds :
                        atom[i].ref_count
                          = gh.refs0[i]
                            + (IF \E j \in 1 .. Len(th[t].res) : th[t].res[j] = AtomN(i)
                               THEN 1 ELSE 0)

(***************************************************************************)
(* C22: allocate(type, name) with an empty name fails (returns no atom)    *)
(* and leaves atom_count and the member set unchanged; a successful        *)
(* allocate returns an atom with ref_count = 1 and truth (0.5, 0.5, 0).    *)
(***************************************************************************)
\* the atom n is as a successful allocate returns it
FreshAtom(n) ==
    /\ IsAtom(n) /\ atom[Idx(n)].st = "live"
    /\ atom[Idx(n)].ref_count = 1
    /\ atom[Idx(n)].strength = Half /\ atom[Idx(n)].confidence = Half
    /\ atom[Idx(n)].count = 0

CallsAllocate(t) ==
    /\ th[t].pc = "idle" /\ th'[t] # th[t] /\ th'[t].op = "atom_create"

LiveMembers == {i \in AtomIds : atom[i].st = "live"}

C23_AtomCount ==
    (space.exists /\ simple_lock_free(SpaceLock))
        => space.atom_count = Cardinality(LiveMembers)

(***************************************************************************)
(* C24: an atom is freed only when its ref_count reaches 0, and no freed   *)
(* atom is still referenced by a holder: in every reachable state no freed *)
(* atom is a member of the Atomspace or of an agent's goals, beliefs or    *)
(* knowledge, provided callers release only references they obtained.      *)
(***************************************************************************)
\* the nodes that some queue or node of the graph points at
PointedAt == {lk[n].next : n \in Nodes} \cup {lk[n].prev : n \in Nodes}

C24_NoFreedMember ==
    \A i \in AtomIds :
        atom[i].st = "freed" =>
            /\ atom[i].ref_count = 0
            /\ AtomN(i) \notin PointedAt
            /\ \A y \in LiveAgents :
                  Occurrences(gh.goals[y], AtomN(i)) + Occurrences(gh.beliefs[y], AtomN(i))
                     + Occurrences(gh.knowledge[y], AtomN(i)) = 0

(***************************************************************************)
(* C25: during apply_rules no thread holds an agent lock and the Agency    *)
(* lock at the same time: the agent lock is released before the Agency     *)
(* lock is taken.                                                          *)
(***************************************************************************)
\* the agent locks thread t holds
AgentLocksHeld(t) == {y \in AgentIds : lock[AgentLock(y)] = t}

C25_LocksNotNested ==
    \A t \in Threads :
        th[t].op = "apply_rules" =>
            ~(lock[AgencyLock] = t /\ AgentLocksHeld(t) # {})

(***************************************************************************)
(* C26: every call site takes an agent lock before the Agency lock: in no  *)
(* reachable state does a thread acquire or wait for an agent lock while   *)
(* it holds the Agency lock, and no concurrent run of apply_rules, reason, *)
(* agent create, agent destroy, add_rule and shutdown reaches a state      *)
(* where threads wait for each other's lock forever.                       *)
(***************************************************************************)
\* the lock thread t is about to acquire at its position
Wants(t) ==
    CASE th[t].pc \in {"ad_lock", "ar_agent", "rs_lock", "rs_idle"}
             -> {AgentLock(Idx(th[t].a))}
      [] th[t].pc \in {"ad_agency", "ar_agency", "ag_lock", "sd_lock"}
             -> {AgencyLock}
      [] OTHER -> {}

\* thread t waits for a lock that thread u holds
WaitsOn(t, u) == \E l \in Wants(t) : lock[l] = u

\* t and u wait for each other (t = u: a thread waits for its own lock)
WaitForever(t, u) == WaitsOn(t, u) /\ WaitsOn(u, t)

C26_LockOrder ==
    /\ \A t \in Threads :
           lock[AgencyLock] = t => \A l \in Wants(t) : l = AgencyLock
    /\ \A t \in Threads, u \in Threads : ~WaitForever(t, u)

(***************************************************************************)
(* C27: a link is in its source's outgoing links if and only if it is in   *)
(* its target's incoming links, in every state a concurrent thread can     *)
(* observe: no count_links running beside create_link(A,B) or              *)
(* remove_link(A,B) finds the link on one side and not on the other.       *)
(***************************************************************************)
\* link l is met by a walk over the queue at head
LinkIn(l, head) ==
    LET w == queue_iterate(lk, head)
    IN  \E j \in 1 .. Len(w.elts) : w.elts[j] = LinkN(l)

\* the atom locks of both ends of link l are free: a count_links on either
\* end can run now
Observable(l) ==
    /\ simple_lock_free(AtomLock(Idx(alink[l].src)))
    /\ simple_lock_free(AtomLock(Idx(alink[l].target)))

C27_BothSides ==
    \A l \in LinkIds :
        alink[l].st = "live" /\ Observable(l) =>
            (LinkIn(l, OutHead(Idx(alink[l].src)))
                <=> LinkIn(l, InHead(Idx(alink[l].target))))

(***************************************************************************)
(* C28: crossing link operations never deadlock: concurrent                *)
(* create_link(A,B), create_link(B,A), remove_link(A,B) and                *)
(* remove_link(B,A) all return, each taking the source atom's lock before  *)
(* the target atom's lock.                                                 *)
(***************************************************************************)
\* the atom lock a link operation is about to take at its position
WantsAtomLock(t) ==
    CASE th[t].pc \in {"cl_from", "rl_from"} -> {AtomLock(Idx(th[t].a))}
      [] th[t].pc \in {"cl_to", "rl_to"} -> {AtomLock(Idx(th[t].b))}
      [] OTHER -> {}

\* no count_links call is stuck: every atom lock held is held by a link
\* operation
OnlyLinkOperations == \A u \in Threads : th[u].op = "count_links" => ~Stuck(u)

C28_CrossingLinksReturn ==
    OnlyLinkOperations =>
        \A t \in Threads :
            th[t].op \in {"create_link", "remove_link"} =>
                /\ ~Stuck(t)
                /\ \A l \in WantsAtomLock(t) : simple_lock_free(l)

(***************************************************************************)
(* C29: no ref_count update is lost: when n operations that each take one  *)
(* reference on the same atom (add_belief on different agents,             *)
(* create_link to it) have run, concurrently or not, its ref_count is      *)
(* exactly n higher than the 1 of its creation.                            *)
(***************************************************************************)
\* the links created to atom n
LinksTo(n) == Cardinality({l \in LinkIds : alink[l].st = "live" /\ alink[l].target = n})

\* no operation is under way
Quiescent == \A t \in Threads : th[t].pc = "idle"

C29_NoLostUpdate ==
    Quiescent =>
        \A i \in AtomIds :
            atom[i].st = "live" =>
                atom[i].ref_count = 1 + AgentsHold(AtomN(i)) + LinksTo(AtomN(i))

(***************************************************************************)
(* C30: a successful create_link(from, to) adds exactly 1 to to.ref_count  *)
(* and a successful remove_link(from, to) takes exactly 1 from it; neither *)
(* changes the ref_count of any other atom (of from, for from # to); a     *)
(* create_link rejected for a strength outside [0,1] and a remove_link     *)
(* that finds no link change no ref_count and no link collection.          *)
(***************************************************************************)
\* thread t takes a step of a create_link or remove_link call
LinkStep(t) == th'[t] # th[t] /\ th'[t].op \in {"create_link", "remove_link"}

\* the step with which the call returns KERN_SUCCESS
LinkDone(t) == th[t].pc \in {"cl_to", "rl_to"} /\ th'[t].pc = "idle"

\* the step with which the call returns KERN_INVALID_ARGUMENT
LinkRejected(t) == th'[t].pc = "idle" /\ th'[t].ret = "KERN_INVALID_ARGUMENT"

\* what the returning call adds to the ref_count of atom i
LinkDelta(t, i) ==
    IF AtomN(i) # th[t].b THEN 0
    ELSE IF th[t].op = "create_link" THEN 1 ELSE 0 - 1

C30_LinkRefCounts ==
    [][\A t \in Threads :
          LinkStep(t) =>
              IF LinkDone(t)
              THEN /\ th'[t].ret = "KERN_SUCCESS"
                   /\ \A i \in AtomIds :
                          atom'[i].ref_count = atom[i].ref_count + LinkDelta(t, i)
              ELSE /\ \A i \in AtomIds : atom'[i].ref_count = atom[i].ref_count
                   /\ LinkRejected(t) => lk' = lk /\ alink' = alink]_vars

\* a link from one atom to another was created and removed again, and the
\* target is back at the ref_count of its creation
C30_Witness ==
    \E t \in Threads :
        /\ Returned(t, "remove_link") /\ th[t].ret = "KERN_SUCCESS"
        /\ th[t].a # th[t].b
        /\ atom[Idx(th[t].b)].ref_count = gh.snap.ref_count - 1

(***************************************************************************)
(* C31: each reason(agent) call adds exactly 1 to reasoning_cycles,        *)
(* changes no goal and no belief in phase 1, moves the agent from Idle to  *)
(* Reasoning and back to Idle, and returns KERN_SUCCESS whether or not the *)
(* rule application matched anything.                                      *)
(***************************************************************************)
\* thread t takes the step of phase 1 of reason
ReasonPhase1(t) == th[t].op = "reason" /\ th[t].pc = "rs_lock" /\ th'[t].pc # "rs_lock"

\* thread t takes the step with which reason returns
ReasonReturns(t) == th[t].op = "reason" /\ th[t].pc = "rs_idle" /\ th'[t].pc = "idle"

C31_ReasonSteps ==
    [][\A t \in Threads :
          LET y == Idx(th[t].a)
          IN  /\ ReasonPhase1(t) =>
                  /\ ~Stuck(t)'
                  /\ agent'[y].reasoning_cycles = agent[y].reasoning_cycles + 1
                  /\ agent'[y].state = "REASONING"
                  /\ atom' = atom /\ lk' = lk
              /\ ReasonReturns(t) =>
                  /\ th'[t].ret = "KERN_SUCCESS"
                  /\ agent'[y].state = "IDLE"
              /\ (th[t].op = "reason" /\ th'[t] # th[t]) => ~Stuck(t)']_vars

\* a reason call returned on an agent that has a goal and a belief
C31_Witness ==
    \E t \in Threads :
        /\ Returned(t, "reason") /\ th[t].ret = "KERN_SUCCESS"
        /\ gh.goals[Idx(th[t].a)] # <<>> /\ gh.beliefs[Idx(th[t].a)] # <<>>

(***************************************************************************)
(* C32: the two phases of reason are not atomic: between phase 1 and the   *)
(* rule application the agent lock is free, so an add_belief of another    *)
(* thread is not held up there, and the rule application of the same call  *)
(* matches a belief that was added in that gap.                            *)
(***************************************************************************)
\* between the phases the agent lock is not held by the reasoning thread, and
\* an add_belief of another thread waiting for a free lock can go on
GapFree ==
    \A t \in Threads :
        BetweenPhases(t) =>
            /\ lock[AgentLock(Idx(th[t].a))] # t
            /\ \A u \in Threads \ {t} :
                   (th[u].pc = "ab_lock" /\ th[u].a = th[t].a
                    /\ simple_lock_free(AgentLock(Idx(th[t].a))))
                       => ENABLED add_belief_enter(u)

\* the rule application of a reason call derives from the belief it stands
\* on, whenever that belief matches and the Atomspace has room
GapMatch ==
    \A t \in Threads :
        (/\ th[t].op = "reason" /\ th[t].pc = "ar_belief"
         /\ th[t].cur # BeliefsHead(Idx(th[t].a))
         /\ WouldCreate(Idx(th[t].rcur), th[t].cur)
         /\ th'[t] # th[t])
            => /\ Len(gh'.derived) = Len(gh.derived) + 1
               /\ gh'.derived[Len(gh'.derived)].belief = th[t].cur

C32_PhasesNotAtomic == []GapFree /\ [][GapMatch]_vars

\* the reason call of thread 1 has derived an atom from the second atom,
\* which became a belief between its two phases
C32_Witness ==
    /\ th[1].op = "reason"
    /\ \E j \in 1 .. Len(gh.derived) : gh.derived[j].belief = AtomN(2)

(***************************************************************************)
(* C33: atom ids are unique and monotonically assigned: any two atoms ever *)
(* allocated, by any threads and in any Atomspace, have different ids, and *)
(* an atom allocated later has a strictly larger id than one allocated     *)
(* earlier.                                                                *)
(***************************************************************************)
C33_AtomIds ==
    /\ \A i \in AtomIds, j \in AtomIds :
           (i # j /\ atom[i].st = "live" /\ atom[j].st = "live")
               => atom[i].id # atom[j].id
    /\ \A m \in 1 .. Len(gh.allocated), n \in 1 .. Len(gh.allocated) :
           m < n => atom[Idx(gh.allocated[m])].id < atom[Idx(gh.allocated[n])].id

(***************************************************************************)
(* C34: for every atom, strength and confidence are within [0,1] in every  *)
(* reachable state, after any sequence of allocate, set_truth (accepted or *)
(* rejected), learn and apply_rules.                                       *)
(***************************************************************************)
\* the float x is a number of [0.0f, 1.0f]
InUnit(x) == FGeq(x, 0) /\ FGeq(One, x)

C34_TruthInUnit ==
    \A i \in AtomIds :
        atom[i].st = "live" => InUnit(atom[i].strength) /\ InUnit(atom[i].confidence)

(***************************************************************************)
(* C35: putting an atom into a collection of an agent does not disturb its *)
(* membership of the Atomspace: after add_goal, add_belief or learn on any *)
(* atom the members of the Atomspace, in insertion order, are what they    *)
(* were, so a walk of them (lookup, find_by_type, query) ends and meets    *)
(* the same atoms.                                                         *)
(***************************************************************************)
C35_MembersKept ==
    /\ Members.ends
    /\ Len(Members.elts) = Cardinality(LiveAtoms)
    /\ \A j \in 1 .. Len(Members.elts) : Members.elts[j] = AtomN(j)

(***************************************************************************)
(* C36: for every agent, whenever its lock is free, message_count is the   *)
(* number of messages in its message_queue and messages_processed is       *)
(* message_count plus the number of messages that receive has dequeued     *)
(* from it; pending_messages returns that message_count.                   *)
(***************************************************************************)
\* the messages in the queue of agent y, as a walk finds them
Queued(y) == queue_iterate(lk, MessageHead(y))

MessageCounters ==
    \A y \in AgentIds :
        (agent[y].st = "live" /\ simple_lock_free(AgentLock(y))) =>
            /\ Queued(y).ends
            /\ agent[y].message_count = Len(Queued(y).elts)
            /\ agent[y].messages_processed
                   = agent[y].message_count + Len(gh.rcvd[y])

\* the step with which pending_messages returns
PendingReturns ==
    \A t \in Threads :
        (th[t].pc = "pm_lock" /\ th'[t].pc = "idle") =>
            /\ th'[t].n = Len(Queued(Idx(th[t].a)).elts)
            /\ th'[t].n = agent[Idx(th[t].a)].message_count

C36_MessageCounters == []MessageCounters /\ [][PendingReturns]_vars

\* pending_messages returned 1 for an agent that was sent two messages and
\* has received one of them
C36_Witness ==
    \E t \in Threads :
        /\ Returned(t, "pending_messages") /\ th[t].n = 1
        /\ Len(gh.rcvd[Idx(th[t].a)]) = 1
        /\ agent[Idx(th[t].a)].messages_processed = 2

(***************************************************************************)
(* C37: the truth of an atom derived by apply_rules comes from one         *)
(* consistent truth value of the belief: with a set_truth on the belief    *)
(* running beside apply_rules, the derived (strength, confidence) is       *)
(* (0.8*s, 0.9*c) for a pair (s, c) that the belief held at some moment,   *)
(* and that c is the confidence that passed the threshold test.            *)
(***************************************************************************)
\* the pairs the belief can have held: the truth of its creation and the one
\* the set_truth calls give it
HeldPairs == {<<Half, Half>>, <<200, 100>>}

C37_ConsistentTruth ==
    \A j \in 1 .. Len(gh.derived) :
        LET d == gh.derived[j]
            n == atom[Idx(d.new)]
        IN  \E p \in HeldPairs :
                /\ n.strength = Mul08(p[1]) /\ n.confidence = Mul09(p[2])
                /\ FGeq(p[2], rule[d.rule].confidence_threshold)

(***************************************************************************)
(* C38: agent ids are unique: any two agents created by agent create       *)
(* calls, also by calls running at the same time on different threads,     *)
(* have different ids.                                                     *)
(***************************************************************************)
\* the agent exists and its create call is past the assignment of the id
HasId(i) ==
    /\ agent[i].st = "live"
    /\ \A t \in Threads :
           ~(th[t].a = AgentN(i) /\ th[t].pc \in {"ag_load", "ag_store"})

C38_AgentIds ==
    \A x \in AgentIds : \A y \in AgentIds \ {x} :
        HasId(x) /\ HasId(y) => agent[x].id # agent[y].id

(***************************************************************************)
(* C39: whenever no operation is in progress on an agent, its state is     *)
(* Idle or Communicating; reason, apply_rules, act, execute_plan and learn *)
(* finish with the agent Idle, also when they overlap on the same agent;   *)
(* and no operation ever puts an agent in state Blocked.                   *)
(***************************************************************************)
\* no thread is inside an operation on agent y
AtRest(y) == \A t \in Threads : th[t].pc = "idle" \/ th[t].a # AgentN(y)

IdleAtRest ==
    \A y \in AgentIds :
        agent[y].st = "live" =>
            /\ agent[y].state # "BLOCKED"
            /\ AtRest(y) => agent[y].state \in {"IDLE", "COMMUNICATING"}

\* the step in which one of the five operations returns, other than with
\* KERN_INVALID_ARGUMENT, leaves the agent Idle
FinishesIdle ==
    \A t \in Threads :
        /\ th[t].pc # "idle" /\ th'[t].pc = "idle"
        /\ th'[t].op \in {"reason", "apply_rules", "act", "execute_plan", "learn"}
        /\ th'[t].ret # "KERN_INVALID_ARGUMENT"
        => agent'[Idx(th'[t].a)].state = "IDLE"

TraceOn == lttng.mach_tracing_enabled /\ lttng.mach_trace_buf_impl.enabled

\* the slots written since tracing was last enabled
Stored ==
    {p \in 0 .. MACH_TRACE_BUF_SIZE - 1 :
        lttng.mach_trace_buf_impl.events[p] # NoEvent
        /\ p < lttng.mach_trace_buf_impl.write_pos}

PositionsInRange ==
    LET buf == lttng.mach_trace_buf_impl
    IN  /\ buf.write_pos \in 0 .. MACH_TRACE_BUF_SIZE - 1
        /\ buf.read_pos \in 0 .. MACH_TRACE_BUF_SIZE - 1
        /\ buffered_events <= MACH_TRACE_BUF_SIZE - 1
        /\ Cardinality(Stored) = buffered_events

\* thread t is at the buffer with tracing on and no room left
ArrivesFull(t) ==
    LET buf == lttng.mach_trace_buf_impl
    IN  /\ th[t].op = "mach_trace_event" /\ th[t].pc = "te_lock"
        /\ th'[t].pc = "idle" /\ TraceOn
        /\ (buf.write_pos + 1) % MACH_TRACE_BUF_SIZE = buf.read_pos

\* thread t calls mach_trace_event with tracing off
ArrivesOff(t) ==
    /\ th[t].pc = "idle" /\ th'[t].op = "mach_trace_event" /\ th'[t] # th[t]
    /\ ~TraceOn

DropsWhenFull ==
    \A t \in Threads :
        /\ ArrivesFull(t) =>
              /\ lttng'.mach_trace_buf_impl.dropped_events =
                     lttng.mach_trace_buf_impl.dropped_events + 1
              /\ lttng'.mach_trace_buf_impl.write_pos =
                     lttng.mach_trace_buf_impl.write_pos
              /\ lttng'.mach_trace_buf_impl.events =
                     lttng.mach_trace_buf_impl.events
        /\ ArrivesOff(t) => lttng' = lttng /\ th'[t].pc = "idle"

C40_TraceRing == []PositionsInRange /\ [][DropsWhenFull]_vars

\* the buffer is full and an event has been dropped
C40_Witness ==
    \E t \in Threads :
        /\ Returned(t, "mach_trace_event") /\ TraceOn
        /\ buffered_events = MACH_TRACE_BUF_SIZE - 1
        /\ lttng.mach_trace_buf_impl.dropped_events = 1

====
